---------------------------- MODULE Spec2Model ----------------------------
(***************************************************************************)
(* A model of the Paddle webhook receiver (src/unnamed/part_000): the      *)
(* signature verifier, the payload validator, the event router and the     *)
(* three synchronizers over the profiles / subscription_plans /            *)
(* user_subscriptions store.                                               *)
(*                                                                         *)
(* Text is modelled as a sequence of elements.  An element is a character  *)
(* [c |-> "x"], the hex digest of an HMAC [mac |-> ..., upper |-> ...]     *)
(* (one element standing for the 64 hex digits, upper telling whether the  *)
(* digits a-f are written in upper case), or the JSON text of a document   *)
(* [json |-> doc] (one element standing for the whole serialisation).      *)
(***************************************************************************)
EXTENDS Integers, Sequences, FiniteSets, TLC

(***************************************************************************)
(* Bounds of the model and constants of the program.                       *)
(***************************************************************************)
\* src line 95: const WEBHOOK_TIMESTAMP_TOLERANCE_SECONDS = 300
WEBHOOK_TIMESTAMP_TOLERANCE_SECONDS == 300
\* The clock value (unix seconds) of the first delivery.
BaseTime == 1000
\* How many seconds beyond the tolerance the sampled header timestamps go.
MaxBeyond == 1
\* How many requests are delivered in one behaviour.
MaxDeliveries == 2

VARIABLES
    config,             \* the environment variables of the deployment
    clock,              \* Date.now() in seconds
    profiles,           \* store table profiles: a sequence of rows
    user_subscriptions, \* store table user_subscriptions: a sequence of rows
    subscription_plans, \* store table subscription_plans: a set of rows
    req,                \* the request being served and where its handler stands
    probe               \* input and result of a function applied on its own

vars == <<config, clock, profiles, user_subscriptions, subscription_plans, req, probe>>

(***************************************************************************)
(* JavaScript values.                                                      *)
(***************************************************************************)
\* undefined, for a value that is otherwise a TLA+ string
Undefined == "undefined!"
\* undefined, for a value that is otherwise a text (a sequence of elements)
UndefinedText == << [undefined |-> TRUE] >>
\* undefined, for a value that is otherwise an object
UndefinedObject == [undefined |-> TRUE]

\* !v for a string-valued v: undefined and "" are falsy
Falsy(v) == v \in {Undefined, ""}
\* !t for a text t
FalsyText(t) == t = UndefinedText \/ t = << >>

\* The text whose characters are the strings of cs.
S(cs) == [i \in DOMAIN cs |-> [c |-> cs[i]]]

IsChar(e) == DOMAIN e = {"c"}

Digits == <<"0", "1", "2", "3", "4", "5", "6", "7", "8", "9">>

IsDigit(e) == IsChar(e) /\ \E d \in DOMAIN Digits : Digits[d] = e.c

DigitValue(e) == (CHOOSE d \in DOMAIN Digits : Digits[d] = e.c) - 1

\* String(n) for an integer n: its decimal digits, with a sign when negative.
RECURSIVE DecimalDigits(_)
DecimalDigits(n) ==
    IF n < 10 THEN S(<<Digits[n + 1]>>)
    ELSE DecimalDigits(n \div 10) \o S(<<Digits[(n % 10) + 1]>>)

ToDecimal(n) == IF n < 0 THEN S(<<"-">>) \o DecimalDigits(0 - n) ELSE DecimalDigits(n)

\* String.prototype.split(sep) for a one-character separator.
RECURSIVE Split(_, _)
Split(s, sep) ==
    IF \E i \in DOMAIN s : s[i] = [c |-> sep]
    THEN LET i == CHOOSE k \in DOMAIN s :
                    /\ s[k] = [c |-> sep]
                    /\ \A j \in 1..(k - 1) : s[j] # [c |-> sep]
         IN  <<SubSeq(s, 1, i - 1)>> \o Split(SubSeq(s, i + 1, Len(s)), sep)
    ELSE <<s>>

\* String.prototype.startsWith
StartsWith(s, prefix) ==
    /\ Len(s) >= Len(prefix)
    /\ SubSeq(s, 1, Len(prefix)) = prefix

\* Array.prototype.find: the first element that satisfies the test, else undefined.
FindStartingWith(parts, prefix) ==
    IF \E i \in DOMAIN parts : StartsWith(parts[i], prefix)
    THEN parts[CHOOSE i \in DOMAIN parts :
                    /\ StartsWith(parts[i], prefix)
                    /\ \A j \in 1..(i - 1) : ~StartsWith(parts[j], prefix)]
    ELSE UndefinedText

\* part?.split("=")[1]
SecondField(part) ==
    IF part = UndefinedText THEN UndefinedText
    ELSE LET fields == Split(part, "=")
         IN  IF Len(fields) >= 2 THEN fields[2] ELSE UndefinedText

UpperLetters ==
    <<"A", "B", "C", "D", "E", "F", "G", "H", "I", "J", "K", "L", "M",
      "N", "O", "P", "Q", "R", "S", "T", "U", "V", "W", "X", "Y", "Z">>

LowerLetters ==
    <<"a", "b", "c", "d", "e", "f", "g", "h", "i", "j", "k", "l", "m",
      "n", "o", "p", "q", "r", "s", "t", "u", "v", "w", "x", "y", "z">>

LowerOf(ch) ==
    IF \E i \in DOMAIN UpperLetters : UpperLetters[i] = ch
    THEN LowerLetters[CHOOSE i \in DOMAIN UpperLetters : UpperLetters[i] = ch]
    ELSE ch

\* String.prototype.toLowerCase
ToLowerCase(s) ==
    [i \in DOMAIN s |->
        IF IsChar(s[i]) THEN [c |-> LowerOf(s[i].c)]
        ELSE IF "mac" \in DOMAIN s[i] THEN [s[i] EXCEPT !.upper = FALSE]
        ELSE s[i]]

IsSpace(e) == IsChar(e) /\ e.c = " "

\* The value of the leading digits of s, most significant first.
RECURSIVE DigitsValue(_, _)
DigitsValue(s, acc) ==
    IF s = << >> \/ ~IsDigit(Head(s)) THEN acc
    ELSE DigitsValue(Tail(s), acc * 10 + DigitValue(Head(s)))

RECURSIVE SkipSpaces(_)
SkipSpaces(s) == IF s # << >> /\ IsSpace(Head(s)) THEN SkipSpaces(Tail(s)) ELSE s

\* parseInt(s, 10): leading white space is skipped, a sign is read, then the
\* longest run of digits; NaN when there is no digit.
parseInt(s) ==
    LET t    == SkipSpaces(s)
        neg  == t # << >> /\ t[1] = [c |-> "-"]
        sign == t # << >> /\ (t[1] = [c |-> "-"] \/ t[1] = [c |-> "+"])
        d    == IF sign THEN Tail(t) ELSE t
    IN  IF d = << >> \/ ~IsDigit(Head(d)) THEN [nan |-> TRUE, n |-> 0]
        ELSE [nan |-> FALSE, n |-> IF neg THEN 0 - DigitsValue(d, 0) ELSE DigitsValue(d, 0)]

\* Math.abs
Abs(n) == IF n < 0 THEN 0 - n ELSE n

(***************************************************************************)
(* Signature verification.                                                 *)
(***************************************************************************)
\* createHmac("sha256", key).update(msg).digest("hex"): a keyed function of
\* the message, injective in (key, msg), in lower-case hex.
HmacSha256Hex(key, msg) == << [mac |-> [key |-> key, msg |-> msg], upper |-> FALSE] >>

\* const APP_ENVIRONMENT = Deno.env.get("APP_ENVIRONMENT") || "development"
APP_ENVIRONMENT(cfg) ==
    IF Falsy(cfg.APP_ENVIRONMENT) THEN "development" ELSE cfg.APP_ENVIRONMENT

\* Variant: the bypass test against a misspelt mode name.
SignatureBypassed_Misspelt(cfg) == APP_ENVIRONMENT(cfg) # "prod"

\* Variant: the bypass only in the mode named "development".
SignatureBypassed_OnlyDevelopment(cfg) == APP_ENVIRONMENT(cfg) = "development"

\* line 135: APP_ENVIRONMENT !== "production"
SignatureBypassed(cfg) == APP_ENVIRONMENT(cfg) # "production"

\* Variant: a verifier that never misses its secret.
SigningSecretMissing_Never(cfg) == FALSE

\* line 142: !PADDLE_WEBHOOK_SIGNING_SECRET
SigningSecretMissing(cfg) == Falsy(cfg.PADDLE_WEBHOOK_SIGNING_SECRET)

\* line 161: !timestampStr || !h1Hash
SignatureFormatInvalid(timestampStr, h1Hash) ==
    FalsyText(timestampStr) \/ FalsyText(h1Hash)

\* Variant: the staleness test without Math.abs, blind to timestamps ahead
\* of the clock.
TimestampTooOld_PastOnly(currentTimestamp, timestamp) ==
    currentTimestamp - timestamp > WEBHOOK_TIMESTAMP_TOLERANCE_SECONDS

\* lines 172-175: Math.abs(currentTimestamp - timestamp) > tolerance
TimestampTooOld(currentTimestamp, timestamp) ==
    Abs(currentTimestamp - timestamp) > WEBHOOK_TIMESTAMP_TOLERANCE_SECONDS

\* line 185: `${timestampStr}:${rawBody}`
SignedPayload(timestampStr, rawBody) == timestampStr \o S(<<":">>) \o rawBody

\* Variant: the digests compared as written, case and all.
HashesMatch_CaseSensitive(computedHash, h1Hash) == computedHash = h1Hash

\* line 193: computedHash.toLowerCase() === h1Hash.toLowerCase()
HashesMatch(computedHash, h1Hash) == ToLowerCase(computedHash) = ToLowerCase(h1Hash)

\* Variant: an unparseable timestamp reported as a format error.
UnparseableTimestampReason_Format == "invalid_signature_format"

\* The reason returned when the timestamp does not parse (line 169).
UnparseableTimestampReason == "invalid_timestamp"

\* verifyPaddleSignature(req, rawBody), with header the value of
\* req.headers.get("Paddle-Signature") (UndefinedText when the header is absent)
\* and now the value of Math.floor(Date.now() / 1000).
verifyPaddleSignature(cfg, header, rawBody, now) ==
    IF SignatureBypassed(cfg)
    THEN [isValid |-> TRUE, reason |-> "bypassed_for_development"]
    ELSE IF SigningSecretMissing(cfg)
    THEN [isValid |-> FALSE, reason |-> "missing_signing_secret"]
    ELSE IF FalsyText(header)
    THEN [isValid |-> FALSE, reason |-> "missing_signature_header"]
    ELSE
    LET parts        == Split(header, ";")
        timestampStr == SecondField(FindStartingWith(parts, S(<<"t", "s", "=">>)))
        h1Hash       == SecondField(FindStartingWith(parts, S(<<"h", "1", "=">>)))
    IN  IF SignatureFormatInvalid(timestampStr, h1Hash)
        THEN [isValid |-> FALSE, reason |-> "invalid_signature_format"]
        ELSE
        LET timestamp == parseInt(timestampStr)
        IN  IF timestamp.nan
            THEN [isValid |-> FALSE, reason |-> UnparseableTimestampReason]
            ELSE IF TimestampTooOld(now, timestamp.n)
            THEN [isValid |-> FALSE, reason |-> "timestamp_too_old"]
            ELSE
            LET computedHash ==
                    HmacSha256Hex(cfg.PADDLE_WEBHOOK_SIGNING_SECRET,
                                  SignedPayload(timestampStr, rawBody))
                isValid      == HashesMatch(computedHash, h1Hash)
            IN  [isValid |-> isValid,
                 reason  |-> IF isValid THEN "valid" ELSE "signature_mismatch"]

(***************************************************************************)
(* The Paddle-Signature headers a sender can put on a request.  A header   *)
(* is described by how it was made (form, the ts text and what it stands   *)
(* for, the h1 text and what was signed); HeaderText is the header itself. *)
(***************************************************************************)
\* The header value, as req.headers.get returns it.
HeaderText(hd) ==
    CASE hd.form = "absent" -> UndefinedText
      [] hd.form = "empty"  -> << >>
      [] hd.form = "ts;h1"  ->
            S(<<"t", "s", "=">>) \o hd.ts \o S(<<";", "h", "1", "=">>) \o hd.h1
      [] hd.form = "h1;ts"  ->
            S(<<"h", "1", "=">>) \o hd.h1 \o S(<<";", "t", "s", "=">>) \o hd.ts
      [] hd.form = "ts"     -> S(<<"t", "s", "=">>) \o hd.ts
      [] hd.form = "h1"     -> S(<<"h", "1", "=">>) \o hd.h1

\* The hex digest as a sender writes it, in lower or upper case.
DigestText(key, msg, upper) == << [mac |-> [key |-> key, msg |-> msg], upper |-> upper] >>

\* A ts field: its text, whether it is an integer, and the integer.
IntegerTs(n) == [text |-> ToDecimal(n), kind |-> "integer", value |-> n]

\* ts fields that are not integers: no digits, empty, digits then a letter.
OddTs(now) ==
    { [text |-> S(<<"a", "b", "c">>), kind |-> "nan", value |-> 0],
      [text |-> << >>, kind |-> "empty", value |-> 0],
      [text |-> ToDecimal(now) \o S(<<"x">>), kind |-> "prefixed", value |-> now] }

\* The seconds between the header's ts and the clock that are sampled.
SampledOffsets ==
    {0} \cup { sgn * (WEBHOOK_TIMESTAMP_TOLERANCE_SECONDS + k) :
                 sgn \in {-1, 1}, k \in (0 - 1)..MaxBeyond }

\* A header of the given form whose h1 is the digest, under key, of
\* "<signedTs>:<signedBody>".
SignedHeader(form, ts, key, signedTs, signedBody, upper) ==
    [form |-> form, ts |-> ts.text, tsKind |-> ts.kind, tsValue |-> ts.value,
     h1 |-> DigestText(key, SignedPayload(signedTs, signedBody), upper),
     h1Kind |-> "mac", macKey |-> key, macTs |-> signedTs, macBody |-> signedBody]

\* A header of the given form whose h1 is not a digest: junk or empty.
UnsignedHeader(form, ts, h1) ==
    [form |-> form, ts |-> ts.text, tsKind |-> ts.kind, tsValue |-> ts.value,
     h1 |-> h1, h1Kind |-> IF h1 = << >> THEN "empty" ELSE "junk",
     macKey |-> "", macTs |-> << >>, macBody |-> << >>]

NoHeader == UnsignedHeader("absent", [text |-> << >>, kind |-> "empty", value |-> 0], << >>)

EmptyHeader == UnsignedHeader("empty", [text |-> << >>, kind |-> "empty", value |-> 0], << >>)

\* The signing keys in the world: the receiver's, when configured, is "k1".
Keys == {"k1", "k2"}

\* Raw bodies used when the verifier is applied on its own: two texts that
\* differ in one character, and the empty body.
ProbeBodies == { S(<<"{", "}">>), S(<<"{", " ", "}">>), << >> }

ProbeHeaders(now) ==
    LET tss == { IntegerTs(now + d) : d \in SampledOffsets } \cup OddTs(now)
    IN  { SignedHeader(form, ts, key, ts.text, b, upper) :
            form \in {"ts;h1", "h1;ts"}, ts \in tss, key \in Keys,
            b \in ProbeBodies, upper \in BOOLEAN }
        \cup { SignedHeader("ts;h1", ts, "k1", ToDecimal(now + 1), b, FALSE) :
                 ts \in {IntegerTs(now)}, b \in ProbeBodies }
        \cup { UnsignedHeader(form, ts, h1) :
                 form \in {"ts;h1", "ts", "h1"}, ts \in tss,
                 h1 \in {<< >>, S(<<"A", "b", "1">>)} }
        \cup { SignedHeader(form, ts, "k1", ts.text, S(<<"{", "}">>), FALSE) :
                 form \in {"ts", "h1"}, ts \in tss }
        \cup { NoHeader, EmptyHeader }

ProbeConfigs ==
    [ APP_ENVIRONMENT : {Undefined, "production", "development", "Production"},
      PADDLE_WEBHOOK_SIGNING_SECRET : {Undefined, "", "k1"},
      SUPABASE_URL : {"https://store"},
      SUPABASE_SERVICE_ROLE_KEY : {"service-role-key"} ]

(***************************************************************************)
(* Environment validation, JSON and payload validation.                    *)
(***************************************************************************)
\* Variant: a validateEnvironment that requires the store URL only.
validateEnvironment_UrlOnly(cfg) == ~Falsy(cfg.SUPABASE_URL)

\* validateEnvironment(): both store variables are required, and the signing
\* secret in production.
validateEnvironment(cfg) ==
    LET missing == { v \in {"SUPABASE_URL", "SUPABASE_SERVICE_ROLE_KEY"} : Falsy(cfg[v]) }
    IN  IF missing # {} THEN FALSE
        ELSE IF APP_ENVIRONMENT(cfg) = "production"
                /\ Falsy(cfg.PADDLE_WEBHOOK_SIGNING_SECRET) THEN FALSE
        ELSE TRUE

\* The JSON text of a document.
JsonText(doc) == << [json |-> doc] >>

\* Whether JSON.parse(rawBody) returns (it throws a SyntaxError otherwise).
IsJson(rawBody) == Len(rawBody) = 1 /\ DOMAIN rawBody[1] = {"json"}

\* JSON.parse(rawBody) for a body that is JSON.
JSONparse(rawBody) == rawBody[1].json

\* The JSON document null: reading a member of it throws a TypeError.
NullDocument == [kind |-> "null"]

\* Variant: a validator that asks for custom_data but not for its userId.
UserIdOfData_CustomDataOnly(data) ==
    IF data.custom_data = UndefinedObject THEN Undefined ELSE "custom_data"

\* payload.data.custom_data?.userId, for a payload with data
UserIdOfData(data) ==
    IF data.custom_data = UndefinedObject THEN Undefined ELSE data.custom_data.userId

\* Variant: a validator without the userId rule.
UserIdRuleViolated_Never(payload) == FALSE

\* The test that guards the userId rule (line 224).
UserIdRuleViolated(payload) ==
    payload.data # UndefinedObject /\ Falsy(UserIdOfData(payload.data))

\* Variant: a validator that stops at the first violated rule.
validateWebhookPayload_FirstOnly(payload) ==
    LET errors ==
            IF Falsy(payload.event_type) THEN <<"Missing event_type">>
            ELSE IF Falsy(payload.event_id) THEN <<"Missing event_id">>
            ELSE IF payload.data = UndefinedObject THEN <<"Missing data object">>
            ELSE IF Falsy(UserIdOfData(payload.data))
                 THEN <<"Missing userId in custom_data">>
            ELSE << >>
    IN  [isValid |-> Len(errors) = 0, errors |-> errors]

\* validateWebhookPayload(payload)
validateWebhookPayload(payload) ==
    LET errors ==
            (IF Falsy(payload.event_type) THEN <<"Missing event_type">> ELSE << >>)
            \o (IF Falsy(payload.event_id) THEN <<"Missing event_id">> ELSE << >>)
            \o (IF payload.data = UndefinedObject
                THEN <<"Missing data object">> ELSE << >>)
            \o (IF UserIdRuleViolated(payload)
                THEN <<"Missing userId in custom_data">> ELSE << >>)
    IN  [isValid |-> Len(errors) = 0, errors |-> errors]

\* Variant: a switch without the subscription.updated label.
RouteOf_CreatedOnly(event_type) ==
    CASE event_type = "subscription.created" -> "handleSubscriptionEvent"
      [] event_type = "transaction.completed" -> "handleTransactionCompleted"
      [] event_type = "subscription.canceled" -> "handleSubscriptionCanceled"
      [] OTHER -> "acknowledge"

\* Variant: a switch whose default label runs the subscription sync.
RouteOf_DefaultSyncs(event_type) ==
    CASE event_type = "transaction.completed" -> "handleTransactionCompleted"
      [] event_type = "subscription.canceled" -> "handleSubscriptionCanceled"
      [] OTHER -> "handleSubscriptionEvent"

\* The switch on payload.event_type (lines 476-493): the handler that runs.
RouteOf(event_type) ==
    CASE event_type \in {"subscription.created", "subscription.updated"}
            -> "handleSubscriptionEvent"
      [] event_type = "transaction.completed" -> "handleTransactionCompleted"
      [] event_type = "subscription.canceled" -> "handleSubscriptionCanceled"
      [] OTHER -> "acknowledge"

(***************************************************************************)
(* The documents a sender can put in a body.                               *)
(***************************************************************************)
BaseCustomData == [userId |-> "u1", email |-> "ann@example.com", full_name |-> "Ann"]

BaseData ==
    [id |-> "sub_1", customer_id |-> "ctm_1", status |-> "active",
     product_id |-> Undefined, subscription_id |-> Undefined,
     items |-> << [product_id |-> "pro_premium", price_id |-> "pri_premium"] >>,
     current_billing_period |-> [starts_at |-> "2024-01-01", ends_at |-> "2024-02-01"],
     custom_data |-> BaseCustomData]

\* data as the validator sees it: missing, without custom_data, without userId,
\* with an empty userId, complete.
ValidationData ==
    { UndefinedObject,
      [BaseData EXCEPT !.custom_data = UndefinedObject],
      [BaseData EXCEPT !.custom_data.userId = Undefined],
      [BaseData EXCEPT !.custom_data.userId = ""],
      BaseData }

\* data as the handlers see it: each line varies one member of BaseData.
HandlerData ==
    { BaseData,
      [BaseData EXCEPT !.items = << [product_id |-> Undefined, price_id |-> "pri_basic"] >>],
      [BaseData EXCEPT !.items = << >>, !.product_id = "pro_premium"],
      [BaseData EXCEPT !.items = << [product_id |-> "pro_unknown", price_id |-> "pri_basic"] >>],
      [BaseData EXCEPT !.items = << >>],
      [BaseData EXCEPT !.items = << [product_id |-> Undefined, price_id |-> Undefined] >>,
                       !.product_id = "pro_premium"],
      [BaseData EXCEPT !.status = Undefined],
      [BaseData EXCEPT !.subscription_id = "sub_1"],
      [BaseData EXCEPT !.custom_data = [userId |-> "u2", email |-> Undefined,
                                        full_name |-> Undefined]] }

EventTypes ==
    {"subscription.created", "subscription.updated", "transaction.completed",
     "subscription.canceled", "customer.created"}

Document(event_type, event_id, data) ==
    [kind |-> "object", event_type |-> event_type, event_id |-> event_id, data |-> data]

ValidationDocuments ==
    { Document(et, ei, d) : et \in {Undefined, "", "subscription.created"},
                            ei \in {Undefined, "evt_1"}, d \in ValidationData }

HandlerDocuments == { Document(et, "evt_1", d) : et \in EventTypes, d \in HandlerData }

\* Bodies that are not JSON, and the JSON text null.
OddBodies == { S(<<"{", "x">>), << >>, JsonText(NullDocument) }

(***************************************************************************)
(* The state of a request and of the store before anything happened.       *)
(***************************************************************************)
\* The handler slots: Spec serves one request at a time, in slot 1.
Slots == {1}

IdleRequest ==
    [pc |-> "idle", requestId |-> 0, method |-> "", hd |-> NoHeader,
     rawBody |-> << >>, bodyReadable |-> TRUE,
     signatureResult |-> [isValid |-> FALSE, reason |-> ""],
     validation |-> [isValid |-> FALSE, errors |-> << >>],
     handler |-> "", calls |-> << >>, outcomes |-> << >>, plan |-> UndefinedObject,
     result |-> [success |-> FALSE, message |-> [template |-> ""]],
     response |-> [status |-> 0, body |-> UndefinedObject]]

\* The rows of subscription_plans: read-only reference data.
Plans ==
    { [id |-> "plan_pro", paddle_product_id |-> "pro_premium",
       name |-> S(<<"P", "r", "o">>)],
      [id |-> "plan_basic", paddle_product_id |-> "pri_basic",
       name |-> S(<<"B", "a", "s", "i", "c">>)] }

StoreInit ==
    /\ profiles = << >>
    /\ user_subscriptions = << >>
    /\ subscription_plans = Plans

NoProbe == [fn |-> "none"]

(***************************************************************************)
(* The store: what each call of the handlers does to the tables and what   *)
(* it returns.  A call returns [error, data]; error.code = "" is no error. *)
(***************************************************************************)
NoError == [code |-> "", message |-> ""]

\* The error of .single() when the result is not exactly one row.
PGRST116 ==
    [code |-> "PGRST116", message |-> "JSON object requested, multiple (or no) rows returned"]

\* Any other error the store reports, and the message of a rejected call.
StoreError == [code |-> "XX000", message |-> "store error"]

NetworkErrorMessage == "network error"

\* null in a column
Null == "null!"

\* new Date().toISOString() at clock value now
IsoString(now) == ToString(now)

\* How a call can end: the store runs it, the store reports an error and
\* changes nothing, or the call throws.
StoreOutcomes == {"ok", "error", "throw"}

Matching(rows, column, value) == { i \in DOMAIN rows : rows[i][column] = value }

\* .single(): the one row, or PGRST116.
Single(rows, matches) ==
    IF Cardinality(matches) = 1
    THEN [error |-> NoError, data |-> rows[CHOOSE i \in matches : TRUE]]
    ELSE [error |-> PGRST116, data |-> UndefinedObject]

\* from("profiles").select("*").eq("user_id", userId).single()
ProfilesSelect(userId) == Single(profiles, Matching(profiles, "user_id", userId))

\* Variant: a lookup that falls back to some plan when none matches.
PlansSelect_DefaultPlan(productId) ==
    LET rows == { p \in subscription_plans : p.paddle_product_id = productId }
    IN  [error |-> NoError,
         data |-> IF Cardinality(rows) = 1 THEN CHOOSE p \in rows : TRUE
                  ELSE CHOOSE p \in subscription_plans : TRUE]

\* from("subscription_plans").select("*").eq("paddle_product_id", productId).single()
PlansSelect(productId) ==
    LET rows == { p \in subscription_plans : p.paddle_product_id = productId }
    IN  IF Cardinality(rows) = 1
        THEN [error |-> NoError, data |-> CHOOSE p \in rows : TRUE]
        ELSE [error |-> PGRST116, data |-> UndefinedObject]

\* A column takes the value sent; a member that is undefined is not sent.
Sent(old, new) == IF new = Undefined THEN old ELSE new

\* Variant: an update that sends created_at along with the other columns.
ProfilesAfterUpdate_Recreate(userId, profileData) ==
    LET matches == Matching(profiles, "user_id", userId)
    IN  IF Cardinality(matches) # 1 THEN profiles
        ELSE [i \in DOMAIN profiles |->
                IF i \in matches
                THEN [profiles[i] EXCEPT
                        !.email = profileData.email,
                        !.full_name = profileData.full_name,
                        !.subscription_status = profileData.subscription_status,
                        !.subscription_plan = profileData.subscription_plan,
                        !.paddle_customer_id = Sent(@, profileData.paddle_customer_id),
                        !.created_at = profileData.updated_at,
                        !.updated_at = profileData.updated_at]
                ELSE profiles[i]]

\* from("profiles").update(profileData).eq("user_id", userId).select().single():
\* the table afterwards.  The update is kept only when one row matched.
ProfilesAfterUpdate(userId, profileData) ==
    LET matches == Matching(profiles, "user_id", userId)
    IN  IF Cardinality(matches) # 1 THEN profiles
        ELSE [i \in DOMAIN profiles |->
                IF i \in matches
                THEN [profiles[i] EXCEPT
                        !.email = profileData.email,
                        !.full_name = profileData.full_name,
                        !.subscription_status = profileData.subscription_status,
                        !.subscription_plan = profileData.subscription_plan,
                        !.paddle_customer_id = Sent(@, profileData.paddle_customer_id),
                        !.updated_at = profileData.updated_at]
                ELSE profiles[i]]

\* from("profiles").insert({...profileData, created_at}): user_id is the key
\* of the table, a second row for it is refused.
ProfilesInsertError(userId) ==
    IF Matching(profiles, "user_id", userId) # {}
    THEN [code |-> "23505", message |-> "duplicate key value"]
    ELSE NoError

ProfilesAfterInsert(profileData, createdAt) ==
    IF ProfilesInsertError(profileData.user_id) # NoError THEN profiles
    ELSE Append(profiles,
                [user_id |-> profileData.user_id,
                 email |-> profileData.email,
                 full_name |-> profileData.full_name,
                 subscription_status |-> profileData.subscription_status,
                 subscription_plan |-> profileData.subscription_plan,
                 paddle_customer_id |-> Sent(Null, profileData.paddle_customer_id),
                 created_at |-> createdAt,
                 updated_at |-> profileData.updated_at])

\* The rows an upserted row conflicts with: paddle_subscription_id is the key
\* of user_subscriptions.
UpsertConflicts(row) ==
    Matching(user_subscriptions, "paddle_subscription_id",
             Sent(Null, row.paddle_subscription_id))

\* Variant: an insert in place of the upsert.
SubscriptionsAfterUpsert_Insert(row) ==
    Append(user_subscriptions,
           [user_id |-> row.user_id,
            plan_id |-> row.plan_id,
            paddle_subscription_id |-> Sent(Null, row.paddle_subscription_id),
            status |-> Sent(Null, row.status),
            current_period_start |-> Sent(Null, row.current_period_start),
            current_period_end |-> Sent(Null, row.current_period_end),
            updated_at |-> row.updated_at])

\* from("user_subscriptions").upsert(row): the row it conflicts with is
\* updated, a new row is added when there is none.
SubscriptionsAfterUpsert(row) ==
    LET matches == UpsertConflicts(row)
    IN  IF matches = {}
        THEN Append(user_subscriptions,
                    [user_id |-> row.user_id,
                     plan_id |-> row.plan_id,
                     paddle_subscription_id |-> Sent(Null, row.paddle_subscription_id),
                     status |-> Sent(Null, row.status),
                     current_period_start |-> Sent(Null, row.current_period_start),
                     current_period_end |-> Sent(Null, row.current_period_end),
                     updated_at |-> row.updated_at])
        ELSE [i \in DOMAIN user_subscriptions |->
                IF i \in matches
                THEN [user_subscriptions[i] EXCEPT
                        !.user_id = row.user_id,
                        !.plan_id = row.plan_id,
                        !.status = Sent(@, row.status),
                        !.current_period_start = Sent(@, row.current_period_start),
                        !.current_period_end = Sent(@, row.current_period_end),
                        !.updated_at = row.updated_at]
                ELSE user_subscriptions[i]]

\* Variant: the cancellation writing a row of its own when none matches.
SubscriptionsAfterUpdate_Upsert(id, fields) ==
    IF Matching(user_subscriptions, "paddle_subscription_id", id) = {}
    THEN Append(user_subscriptions,
                [user_id |-> Null, plan_id |-> Null, paddle_subscription_id |-> id,
                 status |-> fields.status, current_period_start |-> Null,
                 current_period_end |-> fields.current_period_end,
                 updated_at |-> fields.updated_at])
    ELSE [i \in DOMAIN user_subscriptions |->
            IF user_subscriptions[i].paddle_subscription_id = id
            THEN [user_subscriptions[i] EXCEPT
                    !.status = fields.status,
                    !.updated_at = fields.updated_at,
                    !.current_period_end = fields.current_period_end]
            ELSE user_subscriptions[i]]

\* from("user_subscriptions").update({status, updated_at, current_period_end})
\*   .eq("paddle_subscription_id", id): every matching row, none is added.
SubscriptionsAfterUpdate(id, fields) ==
    [i \in DOMAIN user_subscriptions |->
        IF user_subscriptions[i].paddle_subscription_id = id
        THEN [user_subscriptions[i] EXCEPT
                !.status = fields.status,
                !.updated_at = fields.updated_at,
                !.current_period_end = fields.current_period_end]
        ELSE user_subscriptions[i]]

(***************************************************************************)
(* What the handlers compute from the payload.                             *)
(***************************************************************************)
\* a || b for string values
Or(a, b) == IF Falsy(a) THEN b ELSE a

Payload(r) == JSONparse(r.rawBody)

\* subscription.custom_data || {}
CustomData(r) ==
    IF Payload(r).data.custom_data = UndefinedObject
    THEN [userId |-> Undefined, email |-> Undefined, full_name |-> Undefined]
    ELSE Payload(r).data.custom_data

UserId(r) == CustomData(r).userId

\* subscription.items?.[0]?.product_id || subscription.items?.[0]?.price_id
\*   || subscription.product_id
SubscriptionProductId(data) ==
    LET first == IF Len(data.items) > 0 THEN data.items[1]
                 ELSE [product_id |-> Undefined, price_id |-> Undefined]
    IN  Or(Or(first.product_id, first.price_id), data.product_id)

\* Variant: the transaction sync acting on subscription payments too.
IsOneTimePayment_AnyTransaction(data) == Len(data.items) > 0

\* !transaction.subscription_id && transaction.items?.length > 0
IsOneTimePayment(data) == Falsy(data.subscription_id) /\ Len(data.items) > 0

\* item.product_id || item.price_id
TransactionProductId(data) == Or(data.items[1].product_id, data.items[1].price_id)

\* The product identifier the running handler looks the plan up by.
ProductId(r) ==
    IF r.handler = "handleTransactionCompleted"
    THEN TransactionProductId(Payload(r).data)
    ELSE SubscriptionProductId(Payload(r).data)

\* Variant: the plan name handed on as the plan row spells it.
SubscriptionData_NameAsStored(r) ==
    LET data == Payload(r).data
    IN  CASE r.handler = "handleSubscriptionEvent" ->
                [status |-> data.status, planName |-> r.plan.name,
                 customerId |-> data.customer_id]
          [] r.handler = "handleTransactionCompleted" ->
                [status |-> "active", planName |-> r.plan.name,
                 customerId |-> data.customer_id]
          [] r.handler = "handleSubscriptionCanceled" ->
                [status |-> Or(data.status, "canceled"),
                 planName |-> S(<<"f", "r", "e", "e">>),
                 customerId |-> data.customer_id]

\* The subscriptionData argument of upsertUserProfile in each handler.
SubscriptionData(r) ==
    LET data == Payload(r).data
    IN  CASE r.handler = "handleSubscriptionEvent" ->
                [status |-> data.status, planName |-> ToLowerCase(r.plan.name),
                 customerId |-> data.customer_id]
          [] r.handler = "handleTransactionCompleted" ->
                [status |-> "active", planName |-> ToLowerCase(r.plan.name),
                 customerId |-> data.customer_id]
          [] r.handler = "handleSubscriptionCanceled" ->
                [status |-> Or(data.status, "canceled"),
                 planName |-> S(<<"f", "r", "e", "e">>),
                 customerId |-> data.customer_id]

\* Variant: profileData without the placeholders for email and full_name.
ProfileData_NoPlaceholders(r, now) ==
    LET customData == CustomData(r)
        subscriptionData == SubscriptionData(r)
    IN  [user_id |-> UserId(r),
         email |-> customData.email,
         full_name |-> customData.full_name,
         subscription_status |-> Or(subscriptionData.status, "active"),
         subscription_plan |-> IF FalsyText(subscriptionData.planName)
                               THEN S(<<"u", "n", "k", "n", "o", "w", "n">>)
                               ELSE subscriptionData.planName,
         paddle_customer_id |-> subscriptionData.customerId,
         updated_at |-> IsoString(now)]

\* profileData of upsertUserProfile (lines 273-281)
ProfileData(r, now) ==
    LET customData == CustomData(r)
        subscriptionData == SubscriptionData(r)
    IN  [user_id |-> UserId(r),
         email |-> Or(customData.email, "unknown@example.com"),
         full_name |-> Or(customData.full_name, "Unknown User"),
         subscription_status |-> Or(subscriptionData.status, "active"),
         subscription_plan |-> IF FalsyText(subscriptionData.planName)
                               THEN S(<<"u", "n", "k", "n", "o", "w", "n">>)
                               ELSE subscriptionData.planName,
         paddle_customer_id |-> subscriptionData.customerId,
         updated_at |-> IsoString(now)]

\* The row upsertSubscription sends (lines 336-344, 633-640).
SubscriptionRow(r, now) ==
    LET data == Payload(r).data
        period == data.current_billing_period
    IN  [user_id |-> UserId(r),
         plan_id |-> r.plan.id,
         paddle_subscription_id |-> data.id,
         status |-> data.status,
         current_period_start |->
            IF period = UndefinedObject THEN Undefined ELSE period.starts_at,
         current_period_end |->
            IF period = UndefinedObject THEN Undefined ELSE period.ends_at,
         updated_at |-> IsoString(now)]

\* The fields the cancellation writes to user_subscriptions (lines 819-823).
CancellationFields(r, now) ==
    LET data == Payload(r).data
        period == data.current_billing_period
    IN  [status |-> Or(data.status, "canceled"),
         updated_at |-> IsoString(now),
         current_period_end |->
            IF period = UndefinedObject \/ Falsy(period.ends_at) THEN IsoString(now)
            ELSE period.ends_at]


(***************************************************************************)
(* Spec: requests are delivered one after another to the serve handler.    *)
(* A step of a request runs the handler from one await to the next; the    *)
(* pc of a request names the store call it waits for.                      *)
(***************************************************************************)
\* The deployments: every combination of the four environment variables.
Configs ==
    [ APP_ENVIRONMENT : {Undefined, "production"},
      PADDLE_WEBHOOK_SIGNING_SECRET : {Undefined, "k1"},
      SUPABASE_URL : {Undefined, "https://store"},
      SUPABASE_SERVICE_ROLE_KEY : {Undefined, "service-role-key"} ]

\* The header Paddle puts on body b at time now.
PaddleHeader(b, now) ==
    SignedHeader("ts;h1", IntegerTs(now), "k1", ToDecimal(now), b, FALSE)

\* Headers that must not pass in production: another key, a stale timestamp,
\* a digest over another body, no digest, no h1 field, a ts that is no number.
BadHeaders(b, now) ==
    { SignedHeader("ts;h1", IntegerTs(now), "k2", ToDecimal(now), b, FALSE),
      SignedHeader("ts;h1", IntegerTs(now - 301), "k1", ToDecimal(now - 301), b, FALSE),
      SignedHeader("ts;h1", IntegerTs(now), "k1", ToDecimal(now), S(<<"{", "}">>), FALSE),
      UnsignedHeader("ts;h1", IntegerTs(now), S(<<"a", "b">>)),
      UnsignedHeader("ts", IntegerTs(now), << >>),
      SignedHeader("ts;h1", [text |-> S(<<"a", "b", "c">>), kind |-> "nan", value |-> 0],
                   "k1", S(<<"a", "b", "c">>), b, FALSE) }

RequestOf(method, hd, rawBody, bodyReadable) ==
    [method |-> method, hd |-> hd, rawBody |-> rawBody, bodyReadable |-> bodyReadable]

\* The requests a sender can deliver at time now.
Requests(now) ==
    LET all == { JsonText(d) : d \in ValidationDocuments \cup HandlerDocuments }
                \cup OddBodies
        few == { JsonText(Document("subscription.created", "evt_1", BaseData)),
                 S(<<"{", "x">>) }
    IN  { RequestOf("POST", hd, b, TRUE) : hd \in {NoHeader}, b \in all }
        \cup { RequestOf("POST", PaddleHeader(b, now), b, TRUE) : b \in all }
        \cup UNION { { RequestOf("POST", hd, b, TRUE) : hd \in BadHeaders(b, now) } : b \in few }
        \cup { RequestOf("POST", NoHeader, << >>, FALSE),
               RequestOf("OPTIONS", NoHeader, << >>, TRUE) }

Init ==
    /\ config \in Configs
    /\ clock = BaseTime
    /\ StoreInit
    /\ req = [s \in Slots |-> IdleRequest]
    /\ probe = NoProbe

\* The request in slot s becomes r.
Set(s, r) == req' = [req EXCEPT ![s] = r]

\* Variant: a handler that returns without constructing a response.
Respond_Lost(r, status, body) == [r EXCEPT !.pc = "lost"]

\* return new Response(JSON.stringify(body), {status})
Respond(r, status, body) ==
    [r EXCEPT !.pc = "done", !.response = [status |-> status, body |-> body]]

\* The handler returns result: the 200 response of lines 501-511.
Finish(r, success, message) ==
    [Respond(r, 200, [received |-> success,
                      message |-> IF message.template = ""
                                  THEN [template |-> "Event processed successfully"]
                                  ELSE message,
                      requestId |-> r.requestId])
        EXCEPT !.result = [success |-> success, message |-> message]]

\* Variant: a catch that returns the exception's message to the caller.
InternalError_Detailed(r) ==
    Respond(r, 500, [error |-> NetworkErrorMessage, requestId |-> r.requestId])

\* The catch of lines 512-529.
InternalError(r) ==
    Respond(r, 500, [error |-> "Internal server error", requestId |-> r.requestId])

\* The handler awaits a store call.
Issue(r, call) == [r EXCEPT !.pc = call, !.calls = Append(@, call)]

\* The awaited store call has ended with outcome oc.
Returned(r, oc) == [r EXCEPT !.outcomes = Append(@, oc)]

\* A request arrives; the clock has advanced since the previous one.
Deliver(s) ==
    /\ req[s].pc = "idle"
    /\ clock < BaseTime + MaxDeliveries
    /\ clock' = clock + 1
    /\ \E q \in Requests(clock + 1) :
          Set(s, [IdleRequest EXCEPT
                    !.pc = "serve", !.requestId = clock + 1, !.method = q.method,
                    !.hd = q.hd, !.rawBody = q.rawBody, !.bodyReadable = q.bodyReadable])
    /\ UNCHANGED <<config, profiles, user_subscriptions, subscription_plans, probe>>

\* serve, lines 368-410: OPTIONS, the configuration gate, reading the body.
ServeEntry(s) ==
    LET r == req[s]
    IN  /\ r.pc = "serve"
        /\ Set(s, IF r.method = "OPTIONS" THEN Respond(r, 200, [text |-> "ok"])
                  ELSE IF ~validateEnvironment(config)
                  THEN Respond(r, 500, [error |-> "Server configuration error"])
                  ELSE IF ~r.bodyReadable
                  THEN Respond(r, 400, [error |-> "Invalid request body"])
                  ELSE [r EXCEPT !.pc = "verify"])
        /\ UNCHANGED <<config, clock, profiles, user_subscriptions, subscription_plans, probe>>

\* Variant: a signature gate that lets every request through.
SignatureRejected_Never(signatureResult) == FALSE

\* line 415: !signatureResult.isValid
SignatureRejected(signatureResult) == ~signatureResult.isValid

\* lines 413-430: the signature gate.
VerifySignature(s) ==
    LET r == req[s]
        signatureResult == verifyPaddleSignature(config, HeaderText(r.hd), r.rawBody, clock)
        checked == [r EXCEPT !.signatureResult = signatureResult]
    IN  /\ r.pc = "verify"
        /\ Set(s, IF SignatureRejected(signatureResult)
                  THEN Respond(checked, 401, [error |-> "Signature verification failed",
                                              reason |-> signatureResult.reason])
                  ELSE [checked EXCEPT !.pc = "parse"])
        /\ UNCHANGED <<config, clock, profiles, user_subscriptions, subscription_plans, probe>>

\* lines 432-450: JSON.parse, and the log line that reads payload.event_type
\* inside the same try.
ParsePayload(s) ==
    LET r == req[s]
    IN  /\ r.pc = "parse"
        /\ Set(s, IF ~IsJson(r.rawBody) \/ JSONparse(r.rawBody) = NullDocument
                  THEN Respond(r, 400, [error |-> "Invalid JSON payload"])
                  ELSE [r EXCEPT !.pc = "validate"])
        /\ UNCHANGED <<config, clock, profiles, user_subscriptions, subscription_plans, probe>>

\* lines 452-469: the payload gate.
ValidatePayload(s) ==
    LET r == req[s]
        validation == validateWebhookPayload(Payload(r))
        checked == [r EXCEPT !.validation = validation]
    IN  /\ r.pc = "validate"
        /\ Set(s, IF ~validation.isValid
                  THEN Respond(checked, 400, [error |-> "Invalid payload structure",
                                              details |-> validation.errors])
                  ELSE [checked EXCEPT !.pc = "route"])
        /\ UNCHANGED <<config, clock, profiles, user_subscriptions, subscription_plans, probe>>

\* lines 474-493: the switch; a handler starts with validateUser's lookup.
Route(s) ==
    LET r == req[s]
        handler == RouteOf(Payload(r).event_type)
        routed == [r EXCEPT !.handler = handler]
    IN  /\ r.pc = "route"
        /\ Set(s, IF handler = "acknowledge"
                  THEN Finish(routed, TRUE,
                              [template |-> "Event type ${} acknowledged but not processed",
                               detail |-> Payload(r).event_type])
                  ELSE Issue(routed, "profiles.select"))
        /\ UNCHANGED <<config, clock, profiles, user_subscriptions, subscription_plans, probe>>

\* A message with one interpolated value.
Message(template, detail) == [template |-> template, detail |-> detail]

\* error.message of a call that ended with outcome oc, for the calls whose
\* exception is caught where they are made.
FailureMessage(oc, error) == IF oc = "throw" THEN NetworkErrorMessage ELSE error.message

\* Variant: a cancellation that updates user_subscriptions before the profile.
AfterUserValidation_RowFirst(r) ==
    LET data == Payload(r).data
    IN  CASE r.handler = "handleSubscriptionEvent" ->
                IF Falsy(SubscriptionProductId(data))
                THEN Finish(r, FALSE, [template |-> "Product ID missing in subscription data"])
                ELSE Issue(r, "subscription_plans.select")
          [] r.handler = "handleTransactionCompleted" ->
                IF IsOneTimePayment(data) /\ ~Falsy(TransactionProductId(data))
                THEN Issue(r, "subscription_plans.select")
                ELSE Finish(r, TRUE,
                            [template |-> "Transaction completed event processed successfully"])
          [] r.handler = "handleSubscriptionCanceled" ->
                Issue(r, "user_subscriptions.update")

\* What follows validateUser in each handler (lines 566-580, 701-706, 792).
AfterUserValidation(r) ==
    LET data == Payload(r).data
    IN  CASE r.handler = "handleSubscriptionEvent" ->
                IF Falsy(SubscriptionProductId(data))
                THEN Finish(r, FALSE, [template |-> "Product ID missing in subscription data"])
                ELSE Issue(r, "subscription_plans.select")
          [] r.handler = "handleTransactionCompleted" ->
                IF IsOneTimePayment(data) /\ ~Falsy(TransactionProductId(data))
                THEN Issue(r, "subscription_plans.select")
                ELSE Finish(r, TRUE,
                            [template |-> "Transaction completed event processed successfully"])
          [] r.handler = "handleSubscriptionCanceled" ->
                Issue(r, "profiles.update")

\* Variant: a validateUser for which a user without a profile is invalid.
ValidateUserReturns_NotFoundFails(s) ==
    LET r == req[s]
    IN  /\ r.pc = "profiles.select"
        /\ \E oc \in StoreOutcomes :
              LET answer == IF oc = "ok" THEN ProfilesSelect(UserId(r))
                            ELSE [error |-> StoreError, data |-> UndefinedObject]
                  isValid == oc = "ok" /\ answer.error.code = ""
              IN  Set(s, IF ~isValid
                         THEN Finish(Returned(r, oc), FALSE,
                                     Message("User validation failed: ${}",
                                             FailureMessage(oc, answer.error)))
                         ELSE AfterUserValidation(Returned(r, oc)))
        /\ UNCHANGED <<config, clock, profiles, user_subscriptions, subscription_plans, probe>>

\* validateUser's lookup returns (lines 235-261, and 556-564, 687-699, 778-790).
ValidateUserReturns(s) ==
    LET r == req[s]
    IN  /\ r.pc = "profiles.select"
        /\ \E oc \in StoreOutcomes :
              LET answer == IF oc = "ok" THEN ProfilesSelect(UserId(r))
                            ELSE [error |-> StoreError, data |-> UndefinedObject]
                  isValid == oc = "ok" /\ answer.error.code \in {"", "PGRST116"}
              IN  Set(s, IF ~isValid
                         THEN Finish(Returned(r, oc), FALSE,
                                     Message("User validation failed: ${}",
                                             FailureMessage(oc, answer.error)))
                         ELSE AfterUserValidation(Returned(r, oc)))
        /\ UNCHANGED <<config, clock, profiles, user_subscriptions, subscription_plans, probe>>

\* planError || !plan (line 590); plan && !planError (line 715) is its negation.
PlanMissing(answer) == answer.error.code # "" \/ answer.data = UndefinedObject

\* The plan lookup returns (lines 584-600, 709-715).  Its exception is not
\* caught in the handler: it reaches the catch of serve.
PlanLookupReturns(s) ==
    LET r == req[s]
    IN  /\ r.pc = "subscription_plans.select"
        /\ \E oc \in StoreOutcomes :
              LET answer == IF oc = "ok" THEN PlansSelect(ProductId(r))
                            ELSE [error |-> StoreError, data |-> UndefinedObject]
                  found == [Returned(r, oc) EXCEPT !.plan = answer.data]
              IN  Set(s, IF oc = "throw" THEN InternalError(Returned(r, oc))
                         ELSE IF PlanMissing(answer)
                         THEN IF r.handler = "handleSubscriptionEvent"
                              THEN Finish(Returned(r, oc), FALSE,
                                          Message("Subscription plan not found for product ID: ${}",
                                                  ProductId(r)))
                              ELSE Finish(Returned(r, oc), TRUE,
                                          [template |->
                                             "Transaction completed event processed successfully"])
                         ELSE Issue(found, "profiles.update"))
        /\ UNCHANGED <<config, clock, profiles, user_subscriptions, subscription_plans, probe>>

\* The message of a failed upsertUserProfile in each handler.
ProfileFailure(r, detail) ==
    CASE r.handler = "handleSubscriptionEvent" ->
            Message("Profile update failed: ${}", detail)
      [] r.handler = "handleTransactionCompleted" ->
            Message("Profile update failed for one-time payment: ${}", detail)
      [] r.handler = "handleSubscriptionCanceled" ->
            Message("Profile update failed for cancellation: ${}", detail)

\* What follows a successful upsertUserProfile in each handler.
AfterProfileUpsert(r) ==
    CASE r.handler = "handleSubscriptionEvent" -> Issue(r, "user_subscriptions.upsert")
      [] r.handler = "handleTransactionCompleted" ->
            Finish(r, TRUE, [template |-> "Transaction completed event processed successfully"])
      [] r.handler = "handleSubscriptionCanceled" -> Issue(r, "user_subscriptions.update")

\* upsertUserProfile: the update returns (lines 283-291, 313-319).
ProfileUpdateReturns(s) ==
    LET r == req[s]
        profileData == ProfileData(r, clock)
    IN  /\ r.pc = "profiles.update"
        /\ \E oc \in StoreOutcomes :
              LET matches == Matching(profiles, "user_id", UserId(r))
                  updateError == IF oc # "ok" THEN StoreError
                                 ELSE IF Cardinality(matches) = 1 THEN NoError
                                 ELSE PGRST116
              IN  /\ profiles' = IF oc = "ok"
                                 THEN ProfilesAfterUpdate(UserId(r), profileData)
                                 ELSE profiles
                  /\ Set(s, IF oc = "throw"
                            THEN Finish(Returned(r, oc), FALSE, ProfileFailure(r, NetworkErrorMessage))
                            ELSE IF updateError.code = "PGRST116"
                            THEN Issue(Returned(r, oc), "profiles.insert")
                            ELSE IF updateError.code # ""
                            THEN Finish(Returned(r, oc), FALSE, ProfileFailure(r, updateError.message))
                            ELSE AfterProfileUpsert(Returned(r, oc)))
        /\ UNCHANGED <<config, clock, user_subscriptions, subscription_plans, probe>>

\* upsertUserProfile: the insert returns (lines 295-311).
ProfileInsertReturns(s) ==
    LET r == req[s]
        profileData == ProfileData(r, clock)
    IN  /\ r.pc = "profiles.insert"
        /\ \E oc \in StoreOutcomes :
              LET createError == IF oc # "ok" THEN StoreError
                                 ELSE ProfilesInsertError(UserId(r))
              IN  /\ profiles' = IF oc = "ok"
                                 THEN ProfilesAfterInsert(profileData, IsoString(clock))
                                 ELSE profiles
                  /\ Set(s, IF createError.code # ""
                            THEN Finish(Returned(r, oc), FALSE,
                                        ProfileFailure(r, FailureMessage(oc, createError)))
                            ELSE AfterProfileUpsert(Returned(r, oc)))
        /\ UNCHANGED <<config, clock, user_subscriptions, subscription_plans, probe>>

\* Variant: an upsertSubscription that is tried once more after a failure.
SubscriptionUpsertReturns_Retries(s) ==
    LET r == req[s]
    IN  /\ r.pc = "user_subscriptions.upsert"
        /\ \E oc \in StoreOutcomes :
              /\ user_subscriptions' = IF oc = "ok"
                                       THEN SubscriptionsAfterUpsert(SubscriptionRow(r, clock))
                                       ELSE user_subscriptions
              /\ Set(s, IF oc # "ok" /\ Len(r.calls) < 5
                        THEN Issue(Returned(r, oc), "user_subscriptions.upsert")
                        ELSE IF oc # "ok"
                        THEN Finish(Returned(r, oc), FALSE,
                                    Message("Subscription update failed: ${}",
                                            FailureMessage(oc, StoreError)))
                        ELSE Finish(Returned(r, oc), TRUE,
                                    [template |->
                                        "Subscription ${status} processed successfully for plan ${name}",
                                     status |-> Payload(r).data.status,
                                     name |-> r.plan.name]))
        /\ UNCHANGED <<config, clock, profiles, subscription_plans, probe>>

\* upsertSubscription returns (lines 334-365, 642-664).
SubscriptionUpsertReturns(s) ==
    LET r == req[s]
    IN  /\ r.pc = "user_subscriptions.upsert"
        /\ \E oc \in StoreOutcomes :
              /\ user_subscriptions' = IF oc = "ok"
                                       THEN SubscriptionsAfterUpsert(SubscriptionRow(r, clock))
                                       ELSE user_subscriptions
              /\ Set(s, IF oc # "ok"
                        THEN Finish(Returned(r, oc), FALSE,
                                    Message("Subscription update failed: ${}",
                                            FailureMessage(oc, StoreError)))
                        ELSE Finish(Returned(r, oc), TRUE,
                                    [template |->
                                        "Subscription ${status} processed successfully for plan ${name}",
                                     status |-> Payload(r).data.status,
                                     name |-> r.plan.name]))
        /\ UNCHANGED <<config, clock, profiles, subscription_plans, probe>>

\* Variant: a cancellation that deletes the row of the subscription.
SubscriptionUpdateReturns_Deletes(s) ==
    LET r == req[s]
    IN  /\ r.pc = "user_subscriptions.update"
        /\ \E oc \in StoreOutcomes :
              /\ user_subscriptions' =
                    IF oc = "ok"
                    THEN SelectSeq(user_subscriptions,
                                   LAMBDA row : row.paddle_subscription_id # Payload(r).data.id)
                    ELSE user_subscriptions
              /\ Set(s, IF oc = "throw" THEN InternalError(Returned(r, oc))
                        ELSE IF oc = "error"
                        THEN Finish(Returned(r, oc), FALSE,
                                    Message("Subscription record update failed: ${}",
                                            StoreError.message))
                        ELSE Finish(Returned(r, oc), TRUE,
                                    [template |->
                                        "Subscription cancellation processed successfully"]))
        /\ UNCHANGED <<config, clock, profiles, subscription_plans, probe>>

\* The cancellation's update of user_subscriptions returns (lines 817-847).
\* Its exception is not caught in the handler: it reaches the catch of serve.
SubscriptionUpdateReturns(s) ==
    LET r == req[s]
    IN  /\ r.pc = "user_subscriptions.update"
        /\ \E oc \in StoreOutcomes :
              /\ user_subscriptions' =
                    IF oc = "ok"
                    THEN SubscriptionsAfterUpdate(Payload(r).data.id,
                                                  CancellationFields(r, clock))
                    ELSE user_subscriptions
              /\ Set(s, IF oc = "throw" THEN InternalError(Returned(r, oc))
                        ELSE IF oc = "error"
                        THEN Finish(Returned(r, oc), FALSE,
                                    Message("Subscription record update failed: ${}",
                                            StoreError.message))
                        ELSE Finish(Returned(r, oc), TRUE,
                                    [template |->
                                        "Subscription cancellation processed successfully"]))
        /\ UNCHANGED <<config, clock, profiles, subscription_plans, probe>>

\* The response has gone out and serve's promise is settled: nothing of the
\* request is left in the process.
ResponseSent(s) ==
    /\ req[s].pc = "done"
    /\ Set(s, IdleRequest)
    /\ UNCHANGED <<config, clock, profiles, user_subscriptions, subscription_plans, probe>>

Step(s) ==
    \/ Deliver(s)
    \/ ServeEntry(s)
    \/ VerifySignature(s)
    \/ ParsePayload(s)
    \/ ValidatePayload(s)
    \/ Route(s)
    \/ ValidateUserReturns(s)
    \/ PlanLookupReturns(s)
    \/ ProfileUpdateReturns(s)
    \/ ProfileInsertReturns(s)
    \/ SubscriptionUpsertReturns(s)
    \/ SubscriptionUpdateReturns(s)
    \/ ResponseSent(s)

Next == \E s \in Slots : Step(s)

Spec == Init /\ [][Next]_vars

(***************************************************************************)
(* SpecVerify: verifyPaddleSignature applied on its own to every sampled   *)
(* configuration, header, body and clock.                                  *)
(***************************************************************************)
VerifyInit ==
    /\ config \in ProbeConfigs
    /\ clock = BaseTime
    /\ StoreInit
    /\ req = [s \in Slots |-> IdleRequest]
    /\ probe \in { [fn |-> "verify", hd |-> hd, rawBody |-> b, called |-> FALSE,
                    out |-> [isValid |-> FALSE, reason |-> ""]] :
                     hd \in ProbeHeaders(BaseTime), b \in ProbeBodies }

VerifyApply ==
    /\ probe.fn = "verify"
    /\ ~probe.called
    /\ probe' = [probe EXCEPT
                    !.called = TRUE,
                    !.out = verifyPaddleSignature(config, HeaderText(probe.hd),
                                                  probe.rawBody, clock)]
    /\ UNCHANGED <<config, clock, profiles, user_subscriptions, subscription_plans, req>>

SpecVerify == VerifyInit /\ [][VerifyApply]_vars

\* What the verifier was applied to, in the terms of how the header was made.
Verified == probe.fn = "verify" /\ probe.called

ProductionWithSecret ==
    /\ config.APP_ENVIRONMENT = "production"
    /\ config.PADDLE_WEBHOOK_SIGNING_SECRET = "k1"

\* The header has both fields, each with a value, in either order.
CarriesTsAndH1(hd) ==
    /\ hd.form \in {"ts;h1", "h1;ts"}
    /\ hd.tsKind # "empty"
    /\ hd.h1Kind # "empty"

\* h1 is the digest, under the configured secret, of "<ts>:<rawBody>" for the
\* ts text of the header and the body of the request.
CorrectlySigned(hd, rawBody) ==
    /\ hd.h1Kind = "mac"
    /\ hd.macKey = config.PADDLE_WEBHOOK_SIGNING_SECRET
    /\ hd.macTs = hd.ts
    /\ hd.macBody = rawBody

\* C2: in production with a secret, a header with ts and h1 whose ts is more
\* than 300 s from the clock, in the past or in the future, is rejected with
\* timestamp_too_old whatever h1 is; a ts exactly 300 s away is not rejected
\* as stale.
C2_StaleTimestampRejected ==
    (Verified /\ ProductionWithSecret /\ CarriesTsAndH1(probe.hd)
        /\ probe.hd.tsKind = "integer")
    => /\ (probe.hd.tsValue - clock > 300 \/ clock - probe.hd.tsValue > 300)
            => probe.out = [isValid |-> FALSE, reason |-> "timestamp_too_old"]
       /\ (probe.hd.tsValue - clock \in {-300, 300})
            => probe.out.reason # "timestamp_too_old"

C2_Witness ==
    /\ Verified /\ ProductionWithSecret
    /\ probe.hd.form = "ts;h1" /\ probe.hd.tsKind = "integer"
    /\ probe.hd.tsValue = clock + 301
    /\ CorrectlySigned(probe.hd, probe.rawBody)
    /\ probe.out.reason = "timestamp_too_old"

\* C3: in production with a secret and a ts within 300 s of the clock, the
\* verifier answers valid when h1 is, in either case, the digest of
\* "<ts>:<rawBody>" under the secret, and signature_mismatch when the digest
\* was made over another body.
C3_HmacDecides ==
    (Verified /\ ProductionWithSecret /\ CarriesTsAndH1(probe.hd)
        /\ probe.hd.tsKind \in {"integer", "prefixed"}
        /\ probe.hd.tsValue - clock <= 300 /\ clock - probe.hd.tsValue <= 300
        /\ probe.hd.h1Kind = "mac")
    => /\ CorrectlySigned(probe.hd, probe.rawBody)
            => probe.out = [isValid |-> TRUE, reason |-> "valid"]
       /\ probe.hd.macBody # probe.rawBody
            => probe.out = [isValid |-> FALSE, reason |-> "signature_mismatch"]

C3_Witness ==
    /\ Verified /\ ProductionWithSecret
    /\ probe.hd.form = "ts;h1" /\ probe.hd.tsValue = clock - 300
    /\ probe.hd.tsKind = "integer"
    /\ CorrectlySigned(probe.hd, probe.rawBody)
    /\ probe.hd.h1[1].upper
    /\ probe.out.isValid

\* C6: outside production the verifier answers valid, bypassed_for_development,
\* whatever the header is.
C6_BypassOutsideProduction ==
    (Verified /\ config.APP_ENVIRONMENT # "production")
    => probe.out = [isValid |-> TRUE, reason |-> "bypassed_for_development"]

C6_Witness ==
    /\ Verified /\ config.APP_ENVIRONMENT = Undefined
    /\ probe.hd.form = "absent"
    /\ probe.out.reason = "bypassed_for_development"

\* The header is there and not empty, and lacks a ts field with a value or an
\* h1 field with a value.
LacksTsOrH1(hd) ==
    \/ hd.form = "ts"
    \/ hd.form = "h1"
    \/ (hd.form \in {"ts;h1", "h1;ts"} /\ (hd.tsKind = "empty" \/ hd.h1Kind = "empty"))

\* The header has both fields with values and no digit starts the ts.
TsNotAnInteger(hd) == CarriesTsAndH1(hd) /\ hd.tsKind = "nan"

\* C7 as stated: a header that lacks ts, lacks h1 or has a ts that is no
\* integer is rejected with invalid_signature_format.
C7_AsStated ==
    (Verified /\ ProductionWithSecret
        /\ (LacksTsOrH1(probe.hd) \/ TsNotAnInteger(probe.hd)))
    => probe.out = [isValid |-> FALSE, reason |-> "invalid_signature_format"]

\* C7 amended: a header that lacks ts or h1 is rejected with
\* invalid_signature_format; one that has both and whose ts is no integer is
\* rejected with invalid_timestamp.
C7_FormatAndTimestampReasons ==
    (Verified /\ ProductionWithSecret)
    => /\ LacksTsOrH1(probe.hd)
            => probe.out = [isValid |-> FALSE, reason |-> "invalid_signature_format"]
       /\ TsNotAnInteger(probe.hd)
            => probe.out = [isValid |-> FALSE, reason |-> "invalid_timestamp"]

C7_Witness ==
    /\ Verified /\ ProductionWithSecret
    /\ TsNotAnInteger(probe.hd)
    /\ probe.hd.h1Kind = "mac"
    /\ probe.out.reason = "invalid_timestamp"

(***************************************************************************)
(* SpecValidate: validateWebhookPayload applied on its own to every        *)
(* sampled document.                                                       *)
(***************************************************************************)
ProbeDocuments ==
    { Document(et, ei, d) : et \in EventTypes \cup {Undefined, ""},
                            ei \in {Undefined, "", "evt_1"},
                            d \in ValidationData \cup HandlerData }

ValidateInit ==
    /\ config \in ProbeConfigs
    /\ clock = BaseTime
    /\ StoreInit
    /\ req = [s \in Slots |-> IdleRequest]
    /\ probe \in { [fn |-> "validate", payload |-> d, called |-> FALSE,
                    out |-> [isValid |-> FALSE, errors |-> << >>]] :
                     d \in ProbeDocuments }

ValidateApply ==
    /\ probe.fn = "validate"
    /\ ~probe.called
    /\ probe' = [probe EXCEPT !.called = TRUE,
                              !.out = validateWebhookPayload(probe.payload)]
    /\ UNCHANGED <<config, clock, profiles, user_subscriptions, subscription_plans, req>>

SpecValidate == ValidateInit /\ [][ValidateApply]_vars

Validated == probe.fn = "validate" /\ probe.called

\* The members a document lacks (absent, or empty and so falsy).
LacksEventType(doc) == doc.event_type \in {Undefined, ""}

LacksEventId(doc) == doc.event_id \in {Undefined, ""}

LacksData(doc) == doc.data = UndefinedObject

LacksUserId(doc) ==
    \/ doc.data = UndefinedObject
    \/ doc.data.custom_data = UndefinedObject
    \/ doc.data.custom_data.userId \in {Undefined, ""}

Names(errors, entry) == \E i \in DOMAIN errors : errors[i] = entry

Count(errors, entry) == Cardinality({ i \in DOMAIN errors : errors[i] = entry })

\* C9 as stated: the error list has one entry for each of event_type,
\* event_id, data and data.custom_data.userId that is missing; a payload
\* without data is one without userId and gets the userId entry too.
C9_AsStated ==
    Validated
    => /\ Count(probe.out.errors, "Missing event_type")
            = IF LacksEventType(probe.payload) THEN 1 ELSE 0
       /\ Count(probe.out.errors, "Missing event_id")
            = IF LacksEventId(probe.payload) THEN 1 ELSE 0
       /\ Count(probe.out.errors, "Missing data object")
            = IF LacksData(probe.payload) THEN 1 ELSE 0
       /\ Count(probe.out.errors, "Missing userId in custom_data")
            = IF LacksUserId(probe.payload) THEN 1 ELSE 0

\* C9 amended: the error list has one entry for each of event_type, event_id
\* and data that is missing, and the userId entry exactly when data is there
\* and custom_data.userId is not; a payload without data gets "Missing data
\* object" and no userId entry.  The payload is valid exactly when the list
\* is empty.
C9_ErrorsAccumulate ==
    Validated
    => /\ Count(probe.out.errors, "Missing event_type")
            = IF LacksEventType(probe.payload) THEN 1 ELSE 0
       /\ Count(probe.out.errors, "Missing event_id")
            = IF LacksEventId(probe.payload) THEN 1 ELSE 0
       /\ Count(probe.out.errors, "Missing data object")
            = IF LacksData(probe.payload) THEN 1 ELSE 0
       /\ Count(probe.out.errors, "Missing userId in custom_data")
            = IF ~LacksData(probe.payload) /\ LacksUserId(probe.payload) THEN 1 ELSE 0
       /\ Len(probe.out.errors)
            = Count(probe.out.errors, "Missing event_type")
              + Count(probe.out.errors, "Missing event_id")
              + Count(probe.out.errors, "Missing data object")
              + Count(probe.out.errors, "Missing userId in custom_data")
       /\ probe.out.isValid <=> (probe.out.errors = << >>)

C9_Witness ==
    /\ Validated
    /\ LacksEventType(probe.payload) /\ LacksEventId(probe.payload)
    /\ ~LacksData(probe.payload) /\ LacksUserId(probe.payload)
    /\ probe.out.errors = <<"Missing event_type", "Missing event_id",
                            "Missing userId in custom_data">>

(***************************************************************************)
(* Claims about requests, checked under Spec.                              *)
(***************************************************************************)
\* The signature of the request in slot s has been checked.
SignatureChecked(s) == req[s].signatureResult.reason # ""

\* The profiles, subscription_plans and user_subscriptions calls of a request.
StoreCalls(s) == req[s].calls

\* C1: a request whose signature verification returned invalid is answered
\* 401 with the verifier's reason and issues no store call.
C1_InvalidSignatureRejected ==
    \A s \in Slots :
        (SignatureChecked(s) /\ ~req[s].signatureResult.isValid)
        => /\ req[s].pc = "done"
           /\ req[s].response = [status |-> 401,
                                 body |-> [error |-> "Signature verification failed",
                                           reason |-> req[s].signatureResult.reason]]
           /\ StoreCalls(s) = << >>

C1_Witness ==
    \E s \in Slots :
        /\ req[s].signatureResult = [isValid |-> FALSE, reason |-> "timestamp_too_old"]
        /\ IsJson(req[s].rawBody)
        /\ validateWebhookPayload(JSONparse(req[s].rawBody)).isValid
        /\ req[s].response.status = 401

\* The ts of the header is within 300 s of the clock.
WithinWindow(hd, now) ==
    /\ hd.tsKind = "integer"
    /\ hd.tsValue - now <= 300
    /\ now - hd.tsValue <= 300

\* The secrets a deployment can have, none and the empty one among them.
SecretSettings == {Undefined, ""} \cup Keys

\* C4: in production the verifier never answers bypassed_for_development,
\* whatever the secret setting, the header and the body; and a request issues
\* a store call only if its header carries the digest of "<ts>:<rawBody>"
\* under the configured secret, with ts inside the window.
C4_NoBypassInProduction ==
    config.APP_ENVIRONMENT = "production"
    => \A s \in Slots :
          /\ \A k \in SecretSettings :
                verifyPaddleSignature(
                    [config EXCEPT !.PADDLE_WEBHOOK_SIGNING_SECRET = k],
                    HeaderText(req[s].hd), req[s].rawBody, clock).reason
                  # "bypassed_for_development"
          /\ req[s].signatureResult.reason # "bypassed_for_development"
          /\ StoreCalls(s) # << >>
                => /\ CarriesTsAndH1(req[s].hd)
                   /\ CorrectlySigned(req[s].hd, req[s].rawBody)
                   /\ WithinWindow(req[s].hd, clock)

C4_Witness ==
    /\ config.APP_ENVIRONMENT = "production"
    /\ \E s \in Slots :
          /\ StoreCalls(s) # << >>
          /\ req[s].signatureResult = [isValid |-> TRUE, reason |-> "valid"]

ProductionWithoutSecret ==
    /\ config.APP_ENVIRONMENT = "production"
    /\ config.PADDLE_WEBHOOK_SIGNING_SECRET = Undefined

\* C5 as stated, for requests: in production without a signing secret no
\* request is answered 200 and none issues a store call.
C5_AsStated ==
    ProductionWithoutSecret
    => \A s \in Slots :
          /\ req[s].response.status # 200
          /\ StoreCalls(s) = << >>

\* C5 amended: in production without a signing secret the verifier answers
\* missing_signing_secret to every header and body, and no request other
\* than an OPTIONS preflight is answered 200; none issues a store call and
\* the store stays as it was.
C5_FailsClosedWithoutSecret ==
    ProductionWithoutSecret
    => /\ \A q \in Requests(clock) :
             verifyPaddleSignature(config, HeaderText(q.hd), q.rawBody, clock)
                = [isValid |-> FALSE, reason |-> "missing_signing_secret"]
       /\ \A s \in Slots :
             /\ req[s].response.status = 200 => req[s].method = "OPTIONS"
             /\ StoreCalls(s) = << >>
       /\ profiles = << >> /\ user_subscriptions = << >>

C5_Witness ==
    /\ ProductionWithoutSecret
    /\ config.SUPABASE_URL # Undefined /\ config.SUPABASE_SERVICE_ROLE_KEY # Undefined
    /\ \E s \in Slots :
          /\ req[s].pc = "done"
          /\ req[s].method = "POST"
          /\ CorrectlySigned([req[s].hd EXCEPT !.macKey = Undefined], req[s].rawBody)
          /\ req[s].response.status = 500

\* The body is not JSON, or the document it holds lacks one of the four
\* required members.
DefectiveBody(rawBody) ==
    \/ ~IsJson(rawBody)
    \/ rawBody[1].json.kind = "null"
    \/ LacksEventType(rawBody[1].json)
    \/ LacksEventId(rawBody[1].json)
    \/ LacksData(rawBody[1].json)
    \/ LacksUserId(rawBody[1].json)

\* The request in slot s is past the payload gate.
PastValidation(s) == req[s].pc \notin {"idle", "serve", "verify", "parse", "validate"}

\* C8: a request that passed signature verification and whose body is not
\* JSON, or lacks event_type, event_id, data or data.custom_data.userId, is
\* answered 400 and issues no store call.
C8_DefectivePayloadRejected ==
    \A s \in Slots :
        (req[s].signatureResult.isValid /\ PastValidation(s)
            /\ DefectiveBody(req[s].rawBody))
        => /\ req[s].pc = "done"
           /\ req[s].response.status = 400
           /\ StoreCalls(s) = << >>
           /\ req[s].handler = ""

C8_Witness ==
    \E s \in Slots :
        /\ req[s].signatureResult = [isValid |-> TRUE, reason |-> "valid"]
        /\ IsJson(req[s].rawBody)
        /\ req[s].rawBody[1].json.kind = "object"
        /\ ~LacksData(req[s].rawBody[1].json)
        /\ LacksUserId(req[s].rawBody[1].json)
        /\ req[s].response = [status |-> 400,
                              body |-> [error |-> "Invalid payload structure",
                                        details |-> <<"Missing userId in custom_data">>]]

\* The request in slot s has been routed.
Routed(s) == req[s].handler # ""

EventType(s) == req[s].rawBody[1].json.event_type

\* C10: a validated payload takes exactly one route, fixed by its event_type:
\* subscription.created and subscription.updated run the subscription sync,
\* transaction.completed the transaction sync, subscription.canceled the
\* cancellation sync, any other type none of them; and the store calls of the
\* request are those of that handler.
C10_DispatchOnEventType ==
    \A s \in Slots :
        Routed(s)
        => /\ EventType(s) \in {"subscription.created", "subscription.updated"}
                <=> req[s].handler = "handleSubscriptionEvent"
           /\ EventType(s) = "transaction.completed"
                <=> req[s].handler = "handleTransactionCompleted"
           /\ EventType(s) = "subscription.canceled"
                <=> req[s].handler = "handleSubscriptionCanceled"
           /\ req[s].handler \in {"handleSubscriptionEvent", "handleTransactionCompleted",
                                  "handleSubscriptionCanceled", "acknowledge"}
           /\ req[s].handler = "acknowledge" => StoreCalls(s) = << >>
           /\ Names(StoreCalls(s), "user_subscriptions.upsert")
                => EventType(s) \in {"subscription.created", "subscription.updated"}
           /\ Names(StoreCalls(s), "user_subscriptions.update")
                => EventType(s) = "subscription.canceled"
           /\ (Names(StoreCalls(s), "subscription_plans.select")
                    /\ ~Names(StoreCalls(s), "user_subscriptions.upsert")
                    /\ req[s].pc = "done" /\ req[s].result.success)
                => EventType(s) = "transaction.completed"

C10_Witness ==
    \E s \in Slots :
        /\ Routed(s)
        /\ EventType(s) = "subscription.updated"
        /\ req[s].handler = "handleSubscriptionEvent"
        /\ Names(StoreCalls(s), "user_subscriptions.upsert")
        /\ req[s].pc = "done"

(***************************************************************************)
(* Claims about the handlers.                                              *)
(***************************************************************************)
\* The event types the switch has a label for.
KnownTypes ==
    {"subscription.created", "subscription.updated", "transaction.completed",
     "subscription.canceled"}

\* The payload of the request in slot s passed the payload gate and the
\* switch has been executed.
Dispatched(s) == req[s].validation.isValid /\ req[s].pc # "route"

\* C11: a validated payload whose event_type is none of the four known types
\* is answered 200 with received = true and the message "Event type <type>
\* acknowledged but not processed", and issues no store call.
C11_UnknownTypeAcknowledged ==
    \A s \in Slots :
        (Dispatched(s) /\ EventType(s) \notin KnownTypes)
        => /\ req[s].pc = "done"
           /\ req[s].response =
                [status |-> 200,
                 body |-> [received |-> TRUE,
                           message |-> [template |-> "Event type ${} acknowledged but not processed",
                                        detail |-> EventType(s)],
                           requestId |-> req[s].requestId]]
           /\ StoreCalls(s) = << >>

C11_Witness ==
    \E s \in Slots :
        /\ Dispatched(s)
        /\ EventType(s) = "customer.created"
        /\ req[s].signatureResult.reason = "valid"
        /\ req[s].response.status = 200
        /\ req[s].response.body.received


\* The request in slot s has been answered.
Answered(s) == req[s].pc = "done"

\* Every store call of the request in slot s was run by the store.
AllSucceeded(s) == \A i \in DOMAIN req[s].outcomes : req[s].outcomes[i] = "ok"

\* The data member of the payload in slot s.
EventData(s) == req[s].rawBody[1].json.data

\* The request in slot s went through the switch with one of these types.
Handles(s, types) == Dispatched(s) /\ EventType(s) \in types

SubscriptionTypes == {"subscription.created", "subscription.updated"}

\* The first non-empty of the values, Undefined when there is none.
FirstNonEmpty(values) ==
    IF \A i \in DOMAIN values : values[i] \in {Undefined, ""} THEN Undefined
    ELSE values[CHOOSE i \in DOMAIN values :
                    /\ values[i] \notin {Undefined, ""}
                    /\ \A j \in 1..(i - 1) : values[j] \in {Undefined, ""}]

FirstItem(data) ==
    IF Len(data.items) > 0 THEN data.items[1]
    ELSE [product_id |-> Undefined, price_id |-> Undefined]

\* The product identifier of an event: items[0].product_id, else
\* items[0].price_id, else the top-level product_id.
ResolvedProduct(data) ==
    FirstNonEmpty(<<FirstItem(data).product_id, FirstItem(data).price_id, data.product_id>>)

\* The plans an identifier matches.
PlansOf(productId) == { p \in subscription_plans : p.paddle_product_id = productId }

\* The name of each plan in lower case.
LowerName(plan) ==
    CASE plan.id = "plan_pro" -> S(<<"p", "r", "o">>)
      [] plan.id = "plan_basic" -> S(<<"b", "a", "s", "i", "c">>)

\* C12: when a subscription.created/updated event names a product that
\* matches a plan and every store call succeeds, the request ends with a
\* profile for data.custom_data.userId whose subscription_plan is the plan
\* name in lower case and whose subscription_status is the event status
\* ("active" when the event carries none), with a user_subscriptions row for
\* data.id that has the plan's id, the event status and the period bounds of
\* current_billing_period, and with the answer 200, received = true.
C12_SubscriptionSynced ==
    \A s \in Slots :
        (Answered(s) /\ Handles(s, SubscriptionTypes) /\ AllSucceeded(s)
            /\ PlansOf(ResolvedProduct(EventData(s))) # {})
        => LET data == EventData(s)
           IN  \E plan \in PlansOf(ResolvedProduct(data)) :
                 /\ \E i \in DOMAIN profiles :
                       /\ profiles[i].user_id = data.custom_data.userId
                       /\ profiles[i].subscription_plan = LowerName(plan)
                       /\ profiles[i].subscription_status
                            = IF data.status = Undefined THEN "active" ELSE data.status
                 /\ \E j \in DOMAIN user_subscriptions :
                       /\ user_subscriptions[j].paddle_subscription_id = data.id
                       /\ user_subscriptions[j].user_id = data.custom_data.userId
                       /\ user_subscriptions[j].plan_id = plan.id
                       /\ data.status # Undefined
                            => user_subscriptions[j].status = data.status
                       /\ user_subscriptions[j].current_period_start
                            = data.current_billing_period.starts_at
                       /\ user_subscriptions[j].current_period_end
                            = data.current_billing_period.ends_at
                 /\ req[s].response.status = 200
                 /\ req[s].response.body.received

C12_Witness ==
    \E s \in Slots :
        /\ Answered(s)
        /\ Handles(s, {"subscription.created"})
        /\ EventData(s) = BaseData
        /\ req[s].calls = <<"profiles.select", "subscription_plans.select",
                            "profiles.update", "profiles.insert",
                            "user_subscriptions.upsert">>
        /\ AllSucceeded(s)
        /\ Len(profiles) = 1
        /\ profiles[1].subscription_plan = S(<<"p", "r", "o">>)
        /\ Len(user_subscriptions) = 1
        /\ req[s].response.body.received


\* The payload in slot s passed the payload gate, has one of these types and
\* names a product that matches no plan.
NamesUnknownProduct(s, types) ==
    /\ req[s].validation.isValid
    /\ EventType(s) \in types
    /\ ResolvedProduct(EventData(s)) # Undefined
    /\ PlansOf(ResolvedProduct(EventData(s))) = {}

C13_PlanNotFoundResult ==
    \A s \in Slots :
        (Answered(s) /\ NamesUnknownProduct(s, SubscriptionTypes) /\ AllSucceeded(s))
        => /\ req[s].calls = <<"profiles.select", "subscription_plans.select">>
           /\ req[s].response =
                [status |-> 200,
                 body |-> [received |-> FALSE,
                           message |-> [template |-> "Subscription plan not found for product ID: ${}",
                                        detail |-> ResolvedProduct(EventData(s))],
                           requestId |-> req[s].requestId]]

C13_NothingWritten ==
    (\E s \in Slots : NamesUnknownProduct(s, SubscriptionTypes))
    => /\ profiles' = profiles
       /\ user_subscriptions' = user_subscriptions

\* C13: a subscription.created/updated event whose product identifier matches
\* no plan ends, when the lookups succeed, with the failure "Subscription plan
\* not found for product ID: <id>" answered 200 with received = false; and no
\* step of such a request, whatever its store calls return, changes profiles
\* or user_subscriptions.
C13_PlanNotFoundStops == [](C13_PlanNotFoundResult) /\ [][C13_NothingWritten]_vars

C13_Witness ==
    \E s \in Slots :
        /\ Answered(s)
        /\ NamesUnknownProduct(s, {"subscription.created"})
        /\ AllSucceeded(s)
        /\ Len(req[s].outcomes) = 2
        /\ ~req[s].response.body.received
        /\ profiles = << >>


\* The transaction in slot s is one the transaction sync acts on: it has no
\* subscription_id and at least one line item.
OneTimePurchase(s) ==
    /\ EventData(s).subscription_id \in {Undefined, ""}
    /\ Len(EventData(s).items) > 0

\* The request in slot s looked a plan up.
LookedPlanUp(s) == Names(StoreCalls(s), "subscription_plans.select")

\* The request in slot s wrote to profiles.
WroteProfile(s) ==
    Names(StoreCalls(s), "profiles.update") \/ Names(StoreCalls(s), "profiles.insert")

\* What a sync does with the product identifier of its event when every
\* store call succeeds: no lookup when there is none, a lookup when there is
\* one, and a profile write exactly when it matches a plan.
ResolvesByFallback(s) ==
    LET productId == ResolvedProduct(EventData(s))
    IN  /\ productId = Undefined => ~LookedPlanUp(s) /\ ~WroteProfile(s)
        /\ productId # Undefined
              => /\ LookedPlanUp(s)
                 /\ WroteProfile(s) <=> PlansOf(productId) # {}

\* The failure of a subscription sync whose event names no product.
ProductIdMissing(s) ==
    /\ req[s].calls = <<"profiles.select">>
    /\ req[s].response.status = 200
    /\ ~req[s].response.body.received
    /\ req[s].response.body.message = [template |-> "Product ID missing in subscription data"]

\* C14 as stated: the subscription sync and the transaction sync both take
\* the first non-empty of items[0].product_id, items[0].price_id and the
\* top-level product_id, and the subscription sync fails with "product id
\* missing", writing nothing, when all three are empty.
C14_AsStated ==
    \A s \in Slots :
        (Answered(s) /\ AllSucceeded(s)
            /\ \/ Handles(s, SubscriptionTypes)
               \/ Handles(s, {"transaction.completed"}) /\ OneTimePurchase(s))
        => /\ ResolvesByFallback(s)
           /\ (Handles(s, SubscriptionTypes) /\ ResolvedProduct(EventData(s)) = Undefined)
                => ProductIdMissing(s)

\* C14, the subscription sync alone: it takes the first non-empty of
\* items[0].product_id, items[0].price_id and the top-level product_id, and
\* fails with "Product ID missing in subscription data", writing nothing,
\* when all three are empty.
C14_SubscriptionResolution ==
    \A s \in Slots :
        (Answered(s) /\ AllSucceeded(s) /\ Handles(s, SubscriptionTypes))
        => /\ ResolvesByFallback(s)
           /\ ResolvedProduct(EventData(s)) = Undefined => ProductIdMissing(s)

\* A one-time purchase whose line item names no product while the
\* transaction itself names one that has a plan: no plan is looked up.
C14_Witness ==
    \E s \in Slots :
        /\ Answered(s) /\ AllSucceeded(s)
        /\ Handles(s, {"transaction.completed"}) /\ OneTimePurchase(s)
        /\ FirstItem(EventData(s)).product_id = Undefined
        /\ FirstItem(EventData(s)).price_id = Undefined
        /\ PlansOf(EventData(s).product_id) # {}
        /\ req[s].calls = <<"profiles.select">>
        /\ req[s].response.body.received


\* The product identifier of the first line item: its product_id, else its
\* price_id.
ItemProduct(data) == FirstNonEmpty(<<FirstItem(data).product_id, FirstItem(data).price_id>>)

\* The transaction in slot s is a one-time purchase of an item that has a plan.
RecognizedPurchase(s) == OneTimePurchase(s) /\ PlansOf(ItemProduct(EventData(s))) # {}

C15_TransactionResult ==
    \A s \in Slots :
        (Answered(s) /\ Handles(s, {"transaction.completed"}) /\ AllSucceeded(s))
        => /\ WroteProfile(s) <=> RecognizedPurchase(s)
           /\ RecognizedPurchase(s)
                => \E plan \in PlansOf(ItemProduct(EventData(s))) :
                     \E i \in DOMAIN profiles :
                        /\ profiles[i].user_id = EventData(s).custom_data.userId
                        /\ profiles[i].subscription_status = "active"
                        /\ profiles[i].subscription_plan = LowerName(plan)
           /\ req[s].response.status = 200
           /\ req[s].response.body.received
           /\ req[s].response.body.message
                = [template |-> "Transaction completed event processed successfully"]

C15_TransactionWrites ==
    \A s \in Slots :
        (req[s].validation.isValid /\ EventType(s) = "transaction.completed")
        => /\ user_subscriptions' = user_subscriptions
           /\ ~RecognizedPurchase(s) => profiles' = profiles

\* C15: when its store calls succeed, a transaction.completed event writes
\* the profile exactly when it has no subscription_id, has a line item and
\* the item's product identifier matches a plan; the profile then has
\* subscription_status "active" and the plan name in lower case as
\* subscription_plan; the event is answered 200, received = true, either way.
\* No step of a transaction that is not such a purchase changes profiles, and
\* no step of any transaction changes user_subscriptions.
C15_TransactionSync == [](C15_TransactionResult) /\ [][C15_TransactionWrites]_vars

C15_Witness ==
    \E s \in Slots :
        /\ Answered(s) /\ Handles(s, {"transaction.completed"}) /\ AllSucceeded(s)
        /\ RecognizedPurchase(s)
        /\ EventData(s).status = Undefined
        /\ Len(profiles) = 1
        /\ profiles[1].subscription_status = "active"
        /\ profiles[1].subscription_plan = S(<<"p", "r", "o">>)
        /\ user_subscriptions = << >>


\* The status a cancellation stores: the event's, "canceled" when it has none.
CanceledStatus(data) == IF data.status \in {Undefined, ""} THEN "canceled" ELSE data.status

\* The event carries the end of its billing period.
CarriesPeriodEnd(data) ==
    /\ data.current_billing_period # UndefinedObject
    /\ data.current_billing_period.ends_at \notin {Undefined, ""}

C16_CancellationResult ==
    \A s \in Slots :
        (Answered(s) /\ Handles(s, {"subscription.canceled"}) /\ AllSucceeded(s))
        => LET data == EventData(s)
           IN  /\ req[s].response.status = 200
               /\ req[s].response.body.received
               /\ \E i \in DOMAIN profiles :
                     /\ profiles[i].user_id = data.custom_data.userId
                     /\ profiles[i].subscription_plan = S(<<"f", "r", "e", "e">>)
                     /\ profiles[i].subscription_status = CanceledStatus(data)
               /\ \A j \in DOMAIN user_subscriptions :
                     user_subscriptions[j].paddle_subscription_id = data.id
                     => /\ user_subscriptions[j].status = CanceledStatus(data)
                        /\ CarriesPeriodEnd(data)
                             => user_subscriptions[j].current_period_end
                                  = data.current_billing_period.ends_at

C16_NoRowAdded ==
    \A s \in Slots :
        (req[s].validation.isValid /\ EventType(s) = "subscription.canceled")
        => /\ Len(user_subscriptions') = Len(user_subscriptions)
           /\ \A j \in DOMAIN user_subscriptions :
                 /\ user_subscriptions'[j].paddle_subscription_id
                      = user_subscriptions[j].paddle_subscription_id
                 /\ user_subscriptions[j].paddle_subscription_id # EventData(s).id
                      => user_subscriptions'[j] = user_subscriptions[j]

\* C16: after a subscription.canceled event whose store calls all succeeded
\* the profile of the user has subscription_plan "free" and the event status
\* as subscription_status ("canceled" when the event has none), and every
\* user_subscriptions row for data.id has that status and the event's period
\* end; the answer is 200, received = true.  No step of a cancellation adds
\* or removes a user_subscriptions row or touches the row of another
\* subscription.
C16_CancellationSync == [](C16_CancellationResult) /\ [][C16_NoRowAdded]_vars

C16_Witness ==
    \E s \in Slots :
        /\ Answered(s) /\ Handles(s, {"subscription.canceled"}) /\ AllSucceeded(s)
        /\ EventData(s).status = Undefined
        /\ Len(user_subscriptions) = 1
        /\ user_subscriptions[1].paddle_subscription_id = EventData(s).id
        /\ user_subscriptions[1].status = "canceled"
        /\ profiles[1].subscription_plan = S(<<"f", "r", "e", "e">>)

\* A cancellation for a subscription the table has no row for.
C16_WitnessNoRow ==
    \E s \in Slots :
        /\ Answered(s) /\ Handles(s, {"subscription.canceled"}) /\ AllSucceeded(s)
        /\ user_subscriptions = << >>
        /\ req[s].calls = <<"profiles.select", "profiles.update", "profiles.insert",
                            "user_subscriptions.update">>


(***************************************************************************)
(* SpecReplay: Paddle delivers one event of a handled type and delivers    *)
(* the identical signed request again, against a store that earlier        *)
(* deliveries have filled.  The handler steps are those of Spec.           *)
(***************************************************************************)
\* data of the replayed events: that of Spec, an event without a billing
\* period, as Paddle sends for a subscription that has ended, an event for u1
\* without customer_id, email and full_name, and an event in arrears.
ReplayData ==
    HandlerData
    \cup { [BaseData EXCEPT !.current_billing_period = UndefinedObject],
           [BaseData EXCEPT !.customer_id = Undefined,
                            !.custom_data = [userId |-> "u1", email |-> Undefined,
                                             full_name |-> Undefined]],
           [BaseData EXCEPT !.status = "past_due"] }

ReplayBodies == { JsonText(Document(et, "evt_1", d)) : et \in KnownTypes, d \in ReplayData }

\* The deployment of the replays: production, fully configured.
ReplayConfig ==
    [APP_ENVIRONMENT |-> "production", PADDLE_WEBHOOK_SIGNING_SECRET |-> "k1",
     SUPABASE_URL |-> "https://store", SUPABASE_SERVICE_ROLE_KEY |-> "service-role-key"]

\* The rows left by a subscription.created event for u1, sub_1 and the basic
\* plan, in trial, delivered before the clock of the model starts.
EarlierProfile ==
    [user_id |-> "u1", email |-> "ann@example.com", full_name |-> "Ann",
     subscription_status |-> "trialing", subscription_plan |-> S(<<"b", "a", "s", "i", "c">>),
     paddle_customer_id |-> "ctm_1", created_at |-> "900", updated_at |-> "900"]

EarlierSubscription ==
    [user_id |-> "u1", plan_id |-> "plan_basic", paddle_subscription_id |-> "sub_1",
     status |-> "trialing", current_period_start |-> "2023-12-01",
     current_period_end |-> "2024-01-01", updated_at |-> "900"]

\* The stores a replay starts from: nothing yet, the rows of the earlier
\* event, the profile alone (after a one-time purchase).
ReplayStores ==
    { [profiles |-> << >>, user_subscriptions |-> << >>],
      [profiles |-> <<EarlierProfile>>, user_subscriptions |-> <<EarlierSubscription>>],
      [profiles |-> <<EarlierProfile>>, user_subscriptions |-> << >>] }

NoDelivery ==
    [profiles |-> << >>, user_subscriptions |-> << >>, ok |-> FALSE,
     status |-> 0, result |-> IdleRequest.result]

ReplayInit ==
    /\ config = ReplayConfig
    /\ clock = BaseTime
    /\ \E store \in ReplayStores :
          /\ profiles = store.profiles
          /\ user_subscriptions = store.user_subscriptions
    /\ subscription_plans = Plans
    /\ req = [s \in Slots |-> IdleRequest]
    /\ probe = [fn |-> "replay", n |-> 0, hd |-> NoHeader, rawBody |-> << >>,
                last |-> NoDelivery]

\* Paddle delivers: a new signed event the first time, the same request
\* again once the previous delivery went through without a store failure.
ReplayDeliver(s) ==
    /\ probe.fn = "replay"
    /\ req[s].pc = "idle"
    /\ clock < BaseTime + MaxDeliveries
    /\ clock' = clock + 1
    /\ \E b \in ReplayBodies :
          LET hd == IF probe.n = 0 THEN PaddleHeader(b, clock + 1) ELSE probe.hd
          IN  /\ probe.n > 0 => b = probe.rawBody /\ probe.last.ok
              /\ Set(s, [IdleRequest EXCEPT
                           !.pc = "serve", !.requestId = clock + 1, !.method = "POST",
                           !.hd = hd, !.rawBody = b])
              /\ probe' = [probe EXCEPT !.hd = hd, !.rawBody = b]
    /\ UNCHANGED <<config, profiles, user_subscriptions, subscription_plans>>

\* The response has gone out; what the delivery left behind is noted.
ReplayResponseSent(s) ==
    /\ probe.fn = "replay"
    /\ req[s].pc = "done"
    /\ probe' = [probe EXCEPT
                    !.n = @ + 1,
                    !.last = [profiles |-> profiles,
                              user_subscriptions |-> user_subscriptions,
                              ok |-> \A i \in DOMAIN req[s].outcomes :
                                        req[s].outcomes[i] = "ok",
                              status |-> req[s].response.status,
                              result |-> req[s].result]]
    /\ Set(s, IdleRequest)
    /\ UNCHANGED <<config, clock, profiles, user_subscriptions, subscription_plans>>

ReplayStep(s) ==
    \/ ReplayDeliver(s)
    \/ ServeEntry(s)
    \/ VerifySignature(s)
    \/ ParsePayload(s)
    \/ ValidatePayload(s)
    \/ Route(s)
    \/ ValidateUserReturns(s)
    \/ PlanLookupReturns(s)
    \/ ProfileUpdateReturns(s)
    \/ ProfileInsertReturns(s)
    \/ SubscriptionUpsertReturns(s)
    \/ SubscriptionUpdateReturns(s)
    \/ ReplayResponseSent(s)

ReplayNext == \E s \in Slots : ReplayStep(s)

SpecReplay == ReplayInit /\ [][ReplayNext]_vars

\* The rows without their updated_at stamp.
Unstamped(rows) == [i \in DOMAIN rows |-> [rows[i] EXCEPT !.updated_at = ""]]

\* The request in slot s is a second delivery, answered, of an event whose
\* first delivery and whose replay met no store failure.
Replayed(s) ==
    /\ probe.fn = "replay"
    /\ probe.n >= 1
    /\ probe.last.ok
    /\ Answered(s)
    /\ AllSucceeded(s)

\* The replay left the store and the result as the first delivery did.
SameAsFirstDelivery(s) ==
    /\ Unstamped(profiles) = Unstamped(probe.last.profiles)
    /\ Unstamped(user_subscriptions) = Unstamped(probe.last.user_subscriptions)
    /\ req[s].result = probe.last.result
    /\ req[s].response.status = probe.last.status

\* C17 as stated: for every event of a handled type and every store, the
\* second delivery of the identical event leaves profiles and
\* user_subscriptions, updated_at aside, as the first delivery left them, and
\* reports the same result.
C17_AsStated == \A s \in Slots : Replayed(s) => SameAsFirstDelivery(s)

\* C17 for the events that carry what the handler stores: every replay is
\* idempotent except that of a subscription.canceled event without
\* current_billing_period.ends_at against an existing subscription row.
C17_ReplayIdempotentWithPeriodEnd ==
    \A s \in Slots :
        (Replayed(s)
            /\ ~(EventType(s) = "subscription.canceled"
                    /\ ~CarriesPeriodEnd(EventData(s))
                    /\ Matching(user_subscriptions, "paddle_subscription_id",
                                EventData(s).id) # {}))
        => SameAsFirstDelivery(s)

\* The replay of a cancellation without a period end has moved the
\* current_period_end of the subscription row.
C17_Witness ==
    \E s \in Slots :
        /\ Replayed(s)
        /\ EventType(s) = "subscription.canceled"
        /\ ~CarriesPeriodEnd(EventData(s))
        /\ Len(user_subscriptions) = 1
        /\ Len(probe.last.user_subscriptions) = 1
        /\ user_subscriptions[1].current_period_end
             # probe.last.user_subscriptions[1].current_period_end
        /\ req[s].result.success


(***************************************************************************)
(* Claims about the tables over sequences of deliveries, checked under     *)
(* Spec.                                                                   *)
(***************************************************************************)
\* No two rows of the table have the same value in the column.
OneRowPer(rows, column) ==
    \A i, j \in DOMAIN rows : rows[i][column] = rows[j][column] => i = j

\* The store call the request in slot s waited for has been run by the store.
JustSucceeded(s) ==
    /\ Len(req'[s].outcomes) = Len(req[s].outcomes) + 1
    /\ req'[s].outcomes[Len(req'[s].outcomes)] = "ok"

C18_UpsertInPlace ==
    \A s \in Slots :
        (req[s].pc = "user_subscriptions.upsert"
            /\ Matching(user_subscriptions, "paddle_subscription_id", EventData(s).id) # {})
        => /\ Len(user_subscriptions') = Len(user_subscriptions)
           /\ JustSucceeded(s)
                => \E j \in DOMAIN user_subscriptions :
                      /\ user_subscriptions[j].paddle_subscription_id = EventData(s).id
                      /\ user_subscriptions'[j].paddle_subscription_id = EventData(s).id
                      /\ user_subscriptions'[j].plan_id = req[s].plan.id
                      /\ user_subscriptions'[j].user_id = EventData(s).custom_data.userId
                      /\ user_subscriptions'[j].updated_at = IsoString(clock)

OwnProfiles(s) == Matching(profiles, "user_id", EventData(s).custom_data.userId)

\* The update of upsertUserProfile: with a row for the user it rewrites that
\* row and no insert follows; without one it changes nothing and, when the
\* store ran it, the insert follows.
C19_UpdateFirst ==
    \A s \in Slots :
        req[s].pc = "profiles.update"
        => /\ Len(profiles') = Len(profiles)
           /\ OwnProfiles(s) # {}
                => /\ req'[s].pc # "profiles.insert"
                   /\ JustSucceeded(s)
                        => \A i \in OwnProfiles(s) : profiles'[i].updated_at = IsoString(clock)
           /\ OwnProfiles(s) = {}
                => /\ profiles' = profiles
                   /\ JustSucceeded(s) => req'[s].pc = "profiles.insert"

\* The insert of upsertUserProfile comes right after an update that matched
\* no row, and adds the one row of the user, stamped as created now.
C19_InsertOnNoMatch ==
    \A s \in Slots :
        req[s].pc = "profiles.insert"
        => /\ OwnProfiles(s) = {}
           /\ Len(req[s].calls) >= 2
           /\ req[s].calls[Len(req[s].calls) - 1] = "profiles.update"
           /\ req[s].outcomes[Len(req[s].outcomes)] = "ok"
           /\ JustSucceeded(s)
                => /\ Len(profiles') = Len(profiles) + 1
                   /\ profiles'[Len(profiles')].user_id = EventData(s).custom_data.userId
                   /\ profiles'[Len(profiles')].created_at = IsoString(clock)
           /\ ~JustSucceeded(s) => profiles' = profiles

\* A row of profiles stays, for the same user, created when it was.
C19_RowsKept ==
    \A i \in DOMAIN profiles :
        /\ i \in DOMAIN profiles'
        /\ profiles'[i].user_id = profiles[i].user_id
        /\ profiles'[i].created_at = profiles[i].created_at

\* C19: with deliveries handled one at a time, profiles never holds two rows
\* with the same user_id; upsertUserProfile inserts only right after its
\* update matched no row, which creates the row of the user; every later
\* profile write for the user updates that row and leaves created_at as it
\* was.
C19_ProfileUpsert ==
    /\ [](OneRowPer(profiles, "user_id"))
    /\ [][C19_UpdateFirst /\ C19_InsertOnNoMatch /\ C19_RowsKept]_vars

\* The second event for a user has updated the row the first one created.
C19_Witness ==
    \E s \in Slots :
        /\ Answered(s) /\ AllSucceeded(s)
        /\ req[s].calls = <<"profiles.select", "profiles.update", "user_subscriptions.update">>
        /\ Len(profiles) = 1
        /\ profiles[1].user_id = EventData(s).custom_data.userId
        /\ profiles[1].updated_at = IsoString(clock)
        /\ profiles[1].created_at # IsoString(clock)
        /\ profiles[1].subscription_plan = S(<<"f", "r", "e", "e">>)


\* The store calls of the request in slot s that returned an error.
FailedCalls(s) == { i \in DOMAIN req[s].outcomes : req[s].outcomes[i] = "error" }

\* The request in slot s was answered 200 with a failure whose message
\* carries the store's error message.
FailureCarriesStoreError(s) ==
    /\ req[s].response.status = 200
    /\ req[s].response.body.received = FALSE
    /\ req[s].result.success = FALSE
    /\ "detail" \in DOMAIN req[s].result.message
    /\ req[s].result.message.detail = StoreError.message
    /\ req[s].response.body.message = req[s].result.message

\* C20 as stated: a store call that returned an error is the last call of
\* its request, and the request is answered with a failure that carries the
\* store's error message.
C20_AsStated ==
    \A s \in Slots :
        \A i \in FailedCalls(s) :
            /\ i = Len(req[s].calls)
            /\ req[s].pc = "done"
            /\ FailureCarriesStoreError(s)

\* What holds of every handler: a store call that returned an error is the
\* last call of its request; the result is a failure that carries the
\* store's error message unless the call was the plan lookup.
C20_AbortsExceptPlanLookup ==
    \A s \in Slots :
        \A i \in FailedCalls(s) :
            /\ i = Len(req[s].calls)
            /\ req[s].pc = "done"
            /\ req[s].calls[i] # "subscription_plans.select" => FailureCarriesStoreError(s)
            /\ req[s].calls[i] = "subscription_plans.select"
                 => /\ req[s].response.status = 200
                    /\ req[s].response.body.received
                          = (req[s].handler = "handleTransactionCompleted")
                    /\ "detail" \in DOMAIN req[s].result.message
                          => req[s].result.message.detail # StoreError.message

\* The plan lookup of a one-time purchase returned an error and the event
\* was answered as processed.
C20_Witness ==
    \E s \in Slots :
        /\ Answered(s)
        /\ Handles(s, {"transaction.completed"})
        /\ req[s].calls = <<"profiles.select", "subscription_plans.select">>
        /\ req[s].outcomes = <<"ok", "error">>
        /\ req[s].response.status = 200
        /\ req[s].response.body.received = TRUE
        /\ req[s].result.message.template = "Transaction completed event processed successfully"

\* The plan lookup of a subscription event returned an error and the
\* failure names the product, not the store's error.
C20_WitnessSubscription ==
    \E s \in Slots :
        /\ Answered(s)
        /\ Handles(s, SubscriptionTypes)
        /\ req[s].outcomes = <<"ok", "error">>
        /\ req[s].response.body.received = FALSE
        /\ req[s].result.message.template = "Subscription plan not found for product ID: ${}"


\* The writes of user_subscriptions.
SubscriptionWrites == {"user_subscriptions.upsert", "user_subscriptions.update"}

\* The request in slot s awaits its write of user_subscriptions, the profile
\* write before it having succeeded.
AwaitsSubscriptionWrite(s) ==
    /\ req[s].pc \in SubscriptionWrites
    /\ AllSucceeded(s)

\* The last store call of the request in slot s, after the step, has not
\* succeeded.
JustFailed(s) ==
    /\ Len(req'[s].outcomes) = Len(req[s].outcomes) + 1
    /\ req'[s].outcomes[Len(req'[s].outcomes)] # "ok"

\* The request in slot s reports a failure: the 200 answer with
\* received = false, or the 500 answer of serve's catch.
ReportsFailure(r) ==
    \/ /\ r.response.status = 200
       /\ r.response.body.received = FALSE
       /\ r.result.success = FALSE
    \/ /\ r.response.status = 500
       /\ r.response.body.error = "Internal server error"

\* The profile row of the user in slot s carries what this request wrote.
ProfileWritten(s) ==
    /\ Cardinality(OwnProfiles(s)) = 1
    /\ \A i \in OwnProfiles(s) :
          /\ profiles[i].updated_at = IsoString(clock)
          /\ profiles[i].subscription_plan = ProfileData(req[s], clock).subscription_plan
          /\ profiles[i].subscription_status = ProfileData(req[s], clock).subscription_status

\* The failing write of user_subscriptions changes neither store, ends the
\* request with a failure, and is not issued again.
C21_FailedWriteStep ==
    \A s \in Slots :
        AwaitsSubscriptionWrite(s) /\ JustFailed(s)
        => /\ profiles' = profiles
           /\ user_subscriptions' = user_subscriptions
           /\ req'[s].pc = "done"
           /\ req'[s].calls = req[s].calls
           /\ ReportsFailure(req'[s])
           /\ (req[s].pc = "user_subscriptions.upsert"
               \/ req'[s].outcomes[Len(req'[s].outcomes)] = "error")
                => /\ req'[s].response.status = 200
                   /\ req'[s].result.message.detail
                         \in {StoreError.message, NetworkErrorMessage}

\* While the write of user_subscriptions is awaited, and after it has failed,
\* the profile row holds what the request wrote.
C21_ProfileStays ==
    \A s \in Slots :
        /\ AwaitsSubscriptionWrite(s) => ProfileWritten(s)
        /\ ( /\ Answered(s)
             /\ req[s].calls # << >>
             /\ req[s].calls[Len(req[s].calls)] \in SubscriptionWrites
             /\ req[s].outcomes[Len(req[s].outcomes)] # "ok" )
           => ProfileWritten(s) /\ ReportsFailure(req[s])

\* C21: when the profile write of a subscription sync or of a cancellation
\* sync has succeeded and the write of user_subscriptions that follows fails,
\* the profile row keeps what was written, the request is answered with a
\* failure, and the failed write is not issued again.
C21_NoCompensation == [](C21_ProfileStays) /\ [][C21_FailedWriteStep]_vars

\* A subscription sync has written the profile, its upsert of
\* user_subscriptions returned an error, and the answer is a failure.
C21_Witness ==
    \E s \in Slots :
        /\ Answered(s)
        /\ Handles(s, SubscriptionTypes)
        /\ req[s].calls[Len(req[s].calls)] = "user_subscriptions.upsert"
        /\ req[s].outcomes[Len(req[s].outcomes)] = "error"
        /\ ProfileWritten(s)
        /\ user_subscriptions = << >>
        /\ req[s].response.body.received = FALSE

\* A cancellation has written the profile and its update of
\* user_subscriptions returned an error.
C21_WitnessCancellation ==
    \E s \in Slots :
        /\ Answered(s)
        /\ Handles(s, {"subscription.canceled"})
        /\ req[s].calls[Len(req[s].calls)] = "user_subscriptions.update"
        /\ req[s].outcomes[Len(req[s].outcomes)] = "error"
        /\ ProfileWritten(s)
        /\ req[s].response.body.received = FALSE


\* The result of the request r is the failure of validateUser.
UserValidationFailed(r) ==
    /\ r.result.success = FALSE
    /\ r.result.message.template = "User validation failed: ${}"

\* The lookup of validateUser is the first store call of a request and is
\* issued once; when it returned an error or threw, it is the only call and
\* the request is answered 200 with received = false and the message "User
\* validation failed: <error message>".
C22_LookupFirst ==
    \A s \in Slots :
        req[s].calls # << >>
        => /\ req[s].calls[1] = "profiles.select"
           /\ \A i \in DOMAIN req[s].calls : i > 1 => req[s].calls[i] # "profiles.select"
           /\ (req[s].outcomes # << >> /\ req[s].outcomes[1] # "ok")
                => /\ Answered(s)
                   /\ req[s].calls = <<"profiles.select">>
                   /\ UserValidationFailed(req[s])
                   /\ req[s].response.status = 200
                   /\ req[s].response.body.received = FALSE
                   /\ req[s].result.message.detail
                        = (IF req[s].outcomes[1] = "throw" THEN NetworkErrorMessage
                           ELSE StoreError.message)
           /\ (req[s].outcomes # << >> /\ req[s].outcomes[1] = "ok")
                => ~UserValidationFailed(req[s])

\* A lookup that the store ran, whether it found the profile or not, lets
\* the handler go on: the cancellation to its profile write, the other two
\* to their product check.
C22_LookupStep ==
    \A s \in Slots :
        req[s].pc = "profiles.select"
        => /\ profiles' = profiles /\ user_subscriptions' = user_subscriptions
           /\ JustSucceeded(s)
                => /\ req'[s] = AfterUserValidation(Returned(req[s], "ok"))
                   /\ Handles(s, {"subscription.canceled"}) => req'[s].pc = "profiles.update"
                   /\ (Handles(s, SubscriptionTypes) /\ ~Falsy(SubscriptionProductId(EventData(s))))
                        => req'[s].pc = "subscription_plans.select"

C22_WitnessFailure ==
    \E s \in Slots :
        /\ Answered(s)
        /\ req[s].outcomes = <<"error">>
        /\ UserValidationFailed(req[s])


\* The handler of the request r, or the default branch of the switch, has
\* returned a result.
ReturnedResult(r) == r.validation.isValid /\ r.result.message.template # ""

\* A request whose handler returned a result is answered 200 with received
\* equal to the result's success flag; a subscription event whose product
\* matches no plan is answered 200 with received = false.
C23_ReceivedIsSuccess ==
    \A s \in Slots :
        /\ (Answered(s) /\ ReturnedResult(req[s]))
             => /\ req[s].response.status = 200
                /\ req[s].response.body.received = req[s].result.success
                /\ req[s].signatureResult.isValid
        /\ (Answered(s) /\ NamesUnknownProduct(s, SubscriptionTypes) /\ AllSucceeded(s))
             => /\ req[s].response.status = 200
                /\ req[s].response.body.received = FALSE

\* C23 as stated: a request that passed the signature and payload gates and
\* whose handler returned a result is answered 200 with received equal to
\* the handler's success flag, and when a store call of the request returned
\* an error that answer has received = false.
C23_AsStated ==
    /\ C23_ReceivedIsSuccess
    /\ \A s \in Slots :
          (Answered(s) /\ ReturnedResult(req[s]) /\ FailedCalls(s) # {})
             => /\ req[s].response.status = 200
                /\ req[s].response.body.received = FALSE

\* A handler returned a result after a store call of its request returned an
\* error, and the request was answered 200 with received = true.
C23_Witness ==
    \E s \in Slots :
        /\ Answered(s)
        /\ ReturnedResult(req[s])
        /\ FailedCalls(s) # {}
        /\ req[s].result.success
        /\ req[s].response.status = 200
        /\ req[s].response.body.received = TRUE


\* The store URL or the privileged key is not configured, or the signing
\* secret is not configured in production.
ConfigurationMissing ==
    \/ Falsy(config.SUPABASE_URL)
    \/ Falsy(config.SUPABASE_SERVICE_ROLE_KEY)
    \/ /\ config.APP_ENVIRONMENT = "production"
       /\ Falsy(config.PADDLE_WEBHOOK_SIGNING_SECRET)

\* C24: with the store URL or the privileged key missing, or the signing
\* secret missing in production, every request other than OPTIONS is answered
\* 500 "Server configuration error" straight from the configuration gate: its
\* signature is not verified, its payload is not parsed or validated, no
\* handler is chosen, no store call is issued and the stores stay as they
\* were.
C24_ConfigErrorStopsProcessing ==
    ConfigurationMissing
    => /\ profiles = << >> /\ user_subscriptions = << >>
       /\ \A s \in Slots :
             (req[s].pc \notin {"idle", "serve"} /\ req[s].method # "OPTIONS")
             => /\ req[s].pc = "done"
                /\ req[s].response.status = 500
                /\ req[s].response.body.error = "Server configuration error"
                /\ req[s].signatureResult = IdleRequest.signatureResult
                /\ req[s].validation = IdleRequest.validation
                /\ req[s].handler = ""
                /\ req[s].calls = << >>

\* A correctly signed subscription event arrived while the privileged key
\* was missing and was answered by the configuration gate.
C24_Witness ==
    /\ Falsy(config.SUPABASE_SERVICE_ROLE_KEY)
    /\ ~Falsy(config.SUPABASE_URL)
    /\ ~Falsy(config.PADDLE_WEBHOOK_SIGNING_SECRET)
    /\ \E s \in Slots :
          /\ Answered(s)
          /\ req[s].method = "POST"
          /\ IsJson(req[s].rawBody)
          /\ req[s].rawBody[1].json.kind = "object"
          /\ CorrectlySigned(req[s].hd, req[s].rawBody)
          /\ validateWebhookPayload(Payload(req[s])).isValid
          /\ req[s].response.status = 500


\* The store calls whose exception is caught by the function that makes
\* them: validateUser, upsertUserProfile and upsertSubscription.
CaughtWhereMade ==
    {"profiles.select", "profiles.update", "profiles.insert", "user_subscriptions.upsert"}

\* The last store call of the request in slot s threw.
LastCallThrew(s) ==
    /\ req[s].outcomes # << >>
    /\ req[s].outcomes[Len(req[s].outcomes)] = "throw"

\* The 500 response of serve's catch: the generic message and the requestId,
\* nothing else.
GenericError(r) ==
    [status |-> 500, body |-> [error |-> "Internal server error", requestId |-> r.requestId]]

C25_ExceptionAnswers ==
    \A s \in Slots :
        /\ LastCallThrew(s) => Answered(s) /\ Len(req[s].calls) = Len(req[s].outcomes)
        /\ (LastCallThrew(s) /\ req[s].calls[Len(req[s].calls)] \notin CaughtWhereMade)
             => /\ req[s].response = GenericError(req[s])
                /\ req[s].result = IdleRequest.result
        /\ (LastCallThrew(s) /\ req[s].calls[Len(req[s].calls)] \in CaughtWhereMade)
             => /\ req[s].response.status = 200
                /\ req[s].response.body.received = FALSE
                /\ req[s].response.body.message.detail = NetworkErrorMessage
        /\ (req[s].response.status = 500 /\ "requestId" \in DOMAIN req[s].response.body)
             => LastCallThrew(s) /\ req[s].response = GenericError(req[s])

\* An answered request gets no second response.
C25_AnsweredOnce ==
    \A s \in Slots : req[s].pc = "done" => req'[s] = IdleRequest

C25_WitnessCaught ==
    \E s \in Slots :
        /\ Answered(s)
        /\ req[s].outcomes = <<"throw">>
        /\ req[s].response.status = 200
        /\ req[s].response.body.message.detail = NetworkErrorMessage


\* The response in slot s carries the requestId of its request.
CarriesRequestId(s) ==
    /\ "requestId" \in DOMAIN req[s].response.body
    /\ req[s].response.body.requestId = req[s].requestId

\* C26 as stated, for the requests that get past the OPTIONS branch: every
\* response with status 200 or 500 carries the requestId of its request.
C26_AsStated ==
    \A s \in Slots :
        (Answered(s) /\ req[s].method # "OPTIONS" /\ req[s].response.status \in {200, 500})
        => CarriesRequestId(s)

\* What the code does: the 200 response of a dispatched request and the 500
\* response of serve's catch carry the requestId; the 500 response of the
\* configuration gate and the 200 response to OPTIONS do not.
C26_RequestIdWhereSet ==
    \A s \in Slots :
        (Answered(s) /\ req[s].response.status \in {200, 500})
        => (CarriesRequestId(s)
              <=> /\ req[s].method # "OPTIONS"
                  /\ req[s].response.body # [error |-> "Server configuration error"])

\* A request with a requestId was answered 500 by the configuration gate
\* with a body that has no requestId.
C26_Witness ==
    \E s \in Slots :
        /\ Answered(s)
        /\ req[s].method = "POST"
        /\ req[s].requestId # 0
        /\ req[s].response.status = 500
        /\ req[s].response.body = [error |-> "Server configuration error"]


(***************************************************************************)
(* SpecConcurrent: two deliveries are in flight at once.  Each await of a  *)
(* store call yields to the event loop (and separate isolates share the    *)
(* store), so the store calls of the two requests interleave in every      *)
(* order.  The handler steps are those of Spec.                            *)
(***************************************************************************)
ConcurrentSlots == {1, 2}

\* The events in flight: a subscription.created for u1, sub_1 and the pro
\* plan; the subscription.canceled of that subscription; a one-time purchase
\* of the pro plan by u1.
ConcurrentEvents ==
    { Document("subscription.created", "evt_1", BaseData),
      Document("subscription.canceled", "evt_2",
               [BaseData EXCEPT !.status = "canceled",
                                !.current_billing_period =
                                    [starts_at |-> "2024-01-01", ends_at |-> "2024-01-15"]]),
      Document("transaction.completed", "evt_3", [BaseData EXCEPT !.id = "txn_1"]) }

ConcurrentBodies == { JsonText(doc) : doc \in ConcurrentEvents }

\* The stores the deliveries meet: nothing yet, or the rows of an earlier
\* event for u1 and sub_1.
ConcurrentStores ==
    { [profiles |-> << >>, user_subscriptions |-> << >>],
      [profiles |-> <<EarlierProfile>>, user_subscriptions |-> <<EarlierSubscription>>] }

ConcurrentInit ==
    /\ config = ReplayConfig
    /\ clock = BaseTime
    /\ \E store \in ConcurrentStores :
          /\ profiles = store.profiles
          /\ user_subscriptions = store.user_subscriptions
    /\ subscription_plans = Plans
    /\ req = [s \in ConcurrentSlots |-> IdleRequest]
    /\ probe = [fn |-> "concurrent", delivered |-> {}]

\* Paddle delivers a signed event while the other request may be in flight.
ConcurrentDeliver(s) ==
    /\ probe.fn = "concurrent"
    /\ s \notin probe.delivered
    /\ req[s].pc = "idle"
    /\ clock' = clock + 1
    /\ \E b \in ConcurrentBodies :
          Set(s, [IdleRequest EXCEPT
                    !.pc = "serve", !.requestId = clock + 1, !.method = "POST",
                    !.hd = PaddleHeader(b, clock + 1), !.rawBody = b])
    /\ probe' = [probe EXCEPT !.delivered = @ \cup {s}]
    /\ UNCHANGED <<config, profiles, user_subscriptions, subscription_plans>>

ConcurrentStep(s) ==
    \/ ConcurrentDeliver(s)
    \/ ServeEntry(s)
    \/ VerifySignature(s)
    \/ ParsePayload(s)
    \/ ValidatePayload(s)
    \/ Route(s)
    \/ ValidateUserReturns(s)
    \/ PlanLookupReturns(s)
    \/ ProfileUpdateReturns(s)
    \/ ProfileInsertReturns(s)
    \/ SubscriptionUpsertReturns(s)
    \/ SubscriptionUpdateReturns(s)

ConcurrentNext == \E s \in ConcurrentSlots : ConcurrentStep(s)

SpecConcurrent == ConcurrentInit /\ [][ConcurrentNext]_vars


\* The request in slot s has been answered and the store ran all its calls.
RanThrough(s) ==
    /\ req[s].pc = "done"
    /\ \A i \in DOMAIN req[s].outcomes : req[s].outcomes[i] = "ok"

\* The request in slot s issued the update of upsertUserProfile.
UpsertsProfile(s) == \E i \in DOMAIN req[s].calls : req[s].calls[i] = "profiles.update"

\* No profile existed when the deliveries began.
UnknownUserAtStart == \A i \in DOMAIN profiles : profiles[i].created_at # EarlierProfile.created_at

\* Both requests upserted the profile of the user, unknown before, and the
\* store ran every call of both.
BothUpsertedUnknownUser ==
    /\ UnknownUserAtStart
    /\ \A s \in ConcurrentSlots : RanThrough(s) /\ UpsertsProfile(s)
    /\ req[1].rawBody[1].json.data.custom_data.userId
         = req[2].rawBody[1].json.data.custom_data.userId

\* C27 as stated: when two requests for the same previously unknown user are
\* in flight together, in whatever order their store calls interleave, both
\* profile upserts succeed and profiles ends with exactly one row for the
\* user.
C27_AsStated ==
    BothUpsertedUnknownUser
    => /\ \A s \in ConcurrentSlots :
             req[s].result.message.template
                \notin { ProfileFailure(req[s], "").template }
       /\ Cardinality(Matching(profiles, "user_id", "u1")) = 1

\* What the store's key on user_id keeps: profiles never holds two rows for
\* one user, and of two requests that upserted the unknown user at least one
\* succeeded in it.
C27_OneRowKept ==
    /\ OneRowPer(profiles, "user_id")
    /\ BothUpsertedUnknownUser
         => \E s \in ConcurrentSlots :
               req[s].result.message.template # ProfileFailure(req[s], "").template

\* Both requests found no profile to update and both inserted; the store ran
\* every call, and the second insert was refused: that request is answered
\* with the failure of the profile upsert.
C27_Witness ==
    /\ BothUpsertedUnknownUser
    /\ \A s \in ConcurrentSlots :
          \E i \in DOMAIN req[s].calls : req[s].calls[i] = "profiles.insert"
    /\ \E s \in ConcurrentSlots :
          /\ req[s].response.status = 200
          /\ req[s].response.body.received = FALSE
          /\ req[s].result.message = ProfileFailure(req[s], "duplicate key value")
    /\ Len(profiles) = 1


\* The event type of the request in slot s of the concurrent deliveries.
TypeOf(s) == req[s].rawBody[1].json.event_type

\* The request in slot s has been answered with a success.
Succeeded(s) == RanThrough(s) /\ req[s].result.success

\* The profile of u1 holds the plan and status the request in slot s wrote.
ProfileDescribes(s) ==
    \E i \in DOMAIN profiles :
        /\ profiles[i].user_id = "u1"
        /\ profiles[i].subscription_plan = ProfileData(req[s], clock).subscription_plan
        /\ profiles[i].subscription_status = ProfileData(req[s], clock).subscription_status

\* The row of sub_1 holds the status and period end the request in slot s
\* wrote: those of the upserted row for a subscription.created, those of the
\* update for a subscription.canceled.
RowDescribes(s) ==
    LET written == IF TypeOf(s) = "subscription.canceled"
                   THEN CancellationFields(req[s], clock)
                   ELSE SubscriptionRow(req[s], clock)
    IN  \E i \in DOMAIN user_subscriptions :
            /\ user_subscriptions[i].paddle_subscription_id = "sub_1"
            /\ user_subscriptions[i].status = written.status
            /\ user_subscriptions[i].current_period_end = written.current_period_end

\* A subscription.created and the subscription.canceled of the same user and
\* subscription were in flight together and both were answered with success.
CreatedAndCanceledDone ==
    /\ \A s \in ConcurrentSlots : Succeeded(s)
    /\ {TypeOf(1), TypeOf(2)} = {"subscription.created", "subscription.canceled"}

\* C28 as stated: after a subscription.created and a subscription.canceled
\* for the same user and subscription were handled concurrently, the profile
\* and the subscription row are those one of the two sequential orders
\* leaves, which are those the event handled last wrote: both describe the
\* same event.
C28_AsStated ==
    CreatedAndCanceledDone
    => \E s \in ConcurrentSlots : ProfileDescribes(s) /\ RowDescribes(s)

\* What holds under every interleaving: each store write is whole, so the
\* profile is the one that one of the two events wrote and the subscription
\* row is the one that one of the two events wrote, not always the same
\* event.
C28_EachRowFromOneEvent ==
    CreatedAndCanceledDone
    => /\ \E s \in ConcurrentSlots : ProfileDescribes(s)
       /\ \E s \in ConcurrentSlots : RowDescribes(s)
       /\ OneRowPer(user_subscriptions, "paddle_subscription_id")

\* Both events were answered with success; the profile says plan "free",
\* status "canceled", and the subscription row says "active" until the
\* period end of the created event.
C28_Witness ==
    /\ CreatedAndCanceledDone
    /\ \E s \in ConcurrentSlots :
          /\ TypeOf(s) = "subscription.canceled"
          /\ ProfileDescribes(s)
          /\ ~RowDescribes(s)
    /\ \E s \in ConcurrentSlots :
          /\ TypeOf(s) = "subscription.created"
          /\ RowDescribes(s)
          /\ ~ProfileDescribes(s)
    /\ profiles[1].created_at = EarlierProfile.created_at

\* The other mixture: the profile of the created event with the row of the
\* cancellation.
C28_WitnessCanceledRow ==
    /\ CreatedAndCanceledDone
    /\ \E s \in ConcurrentSlots :
          /\ TypeOf(s) = "subscription.created"
          /\ ProfileDescribes(s)
          /\ ~RowDescribes(s)


\* The store calls of each handler in the order of its code; the profile
\* write is the update, followed by the insert when the update matched no
\* row.
CallOrders(handler) ==
    CASE handler = "handleSubscriptionEvent" ->
            { <<"profiles.select", "subscription_plans.select", "profiles.update",
                "user_subscriptions.upsert">>,
              <<"profiles.select", "subscription_plans.select", "profiles.update",
                "profiles.insert", "user_subscriptions.upsert">> }
      [] handler = "handleTransactionCompleted" ->
            { <<"profiles.select", "subscription_plans.select", "profiles.update">>,
              <<"profiles.select", "subscription_plans.select", "profiles.update",
                "profiles.insert">> }
      [] handler = "handleSubscriptionCanceled" ->
            { <<"profiles.select", "profiles.update", "user_subscriptions.update">>,
              <<"profiles.select", "profiles.update", "profiles.insert",
                "user_subscriptions.update">> }
      [] OTHER -> { << >> }

IsPrefix(p, q) == Len(p) <= Len(q) /\ \A i \in DOMAIN p : p[i] = q[i]

\* At most the last issued call of a request is outstanding, and it is the
\* one the request waits for; the calls issued so far follow the order of
\* the handler.
C29_OneOutstandingInOrder ==
    \A s \in Slots :
        /\ Len(req[s].calls) - Len(req[s].outcomes) \in {0, 1}
        /\ Len(req[s].calls) = Len(req[s].outcomes) + 1
             <=> req[s].pc \notin {"idle", "serve", "verify", "parse", "validate", "route", "done"}
        /\ Len(req[s].calls) = Len(req[s].outcomes) + 1
             => req[s].pc = req[s].calls[Len(req[s].calls)]
        /\ \E order \in CallOrders(req[s].handler) : IsPrefix(req[s].calls, order)

\* A call is issued only in a step in which every earlier call of the
\* request has returned, and one at a time.
C29_IssuedAfterReturn ==
    \A s \in Slots :
        (req'[s].pc # "idle" /\ Len(req'[s].calls) > Len(req[s].calls))
        => /\ Len(req'[s].calls) = Len(req[s].calls) + 1
           /\ Len(req'[s].outcomes) = Len(req[s].calls)

\* C29: a request issues its store calls one at a time, each after the one
\* before it returned, in the order profile lookup, plan lookup, profile
\* write, user_subscriptions write, without the plan lookup for a
\* cancellation and without the user_subscriptions write for a transaction;
\* it never has two store calls outstanding.
C29_SequentialStoreCalls == [](C29_OneOutstandingInOrder) /\ [][C29_IssuedAfterReturn]_vars

\* A subscription event for an unknown user has gone through all five of
\* its store calls.
C29_Witness ==
    \E s \in Slots :
        /\ Answered(s) /\ AllSucceeded(s)
        /\ req[s].calls = <<"profiles.select", "subscription_plans.select", "profiles.update",
                            "profiles.insert", "user_subscriptions.upsert">>
        /\ Len(req[s].outcomes) = 5


(***************************************************************************)
(* SpecLive: the requests of Spec under the scheduling of the runtime: a   *)
(* synchronous stretch of serve that can run does run, and the store       *)
(* answers or fails every call it is sent.  Nothing obliges a sender to    *)
(* deliver.                                                                *)
(***************************************************************************)
LiveBodies ==
    ConcurrentBodies
        \cup { JsonText(Document("customer.created", "evt_4", BaseData)) }
        \cup OddBodies

\* The requests of SpecLive: signed bodies, a body signed with another key,
\* an unreadable body, a preflight.
LiveRequests(now) ==
    { RequestOf("POST", PaddleHeader(b, now), b, TRUE) : b \in LiveBodies }
        \cup { RequestOf("POST",
                         SignedHeader("ts;h1", IntegerTs(now), "k2", ToDecimal(now),
                                      JsonText(Document("subscription.created", "evt_1",
                                                        BaseData)), FALSE),
                         JsonText(Document("subscription.created", "evt_1", BaseData)), TRUE),
               RequestOf("POST", NoHeader, << >>, FALSE),
               RequestOf("OPTIONS", NoHeader, << >>, TRUE) }

LiveDeliver(s) ==
    /\ req[s].pc = "idle"
    /\ clock < BaseTime + MaxDeliveries
    /\ clock' = clock + 1
    /\ \E q \in LiveRequests(clock + 1) :
          Set(s, [IdleRequest EXCEPT
                    !.pc = "serve", !.requestId = clock + 1, !.method = q.method,
                    !.hd = q.hd, !.rawBody = q.rawBody, !.bodyReadable = q.bodyReadable])
    /\ UNCHANGED <<config, profiles, user_subscriptions, subscription_plans, probe>>

\* The steps of serve between two awaits, the signature gate apart.
LiveRun(s) ==
    \/ ServeEntry(s)
    \/ ParsePayload(s)
    \/ ValidatePayload(s)
    \/ Route(s)
    \/ ResponseSent(s)

\* The return of an awaited store call.
LiveReturn(s) ==
    \/ ValidateUserReturns(s)
    \/ PlanLookupReturns(s)
    \/ ProfileUpdateReturns(s)
    \/ ProfileInsertReturns(s)
    \/ SubscriptionUpsertReturns(s)
    \/ SubscriptionUpdateReturns(s)

LiveNext ==
    \E s \in Slots : LiveDeliver(s) \/ LiveRun(s) \/ VerifySignature(s) \/ LiveReturn(s)

\* Every store call eventually returns, and the runtime runs what is ready.
\* The signature gate is enabled exactly at the position "verify" and leaves
\* it, so its weak fairness, WF_vars(VerifySignature(s)), is the third
\* conjunct: the request is not at "verify" for ever.
LiveFairness ==
    \A s \in Slots :
        /\ WF_vars(LiveRun(s))
        /\ WF_vars(LiveReturn(s))
        /\ []<>(req[s].pc # "verify")

SpecLive == Init /\ [][LiveNext]_vars /\ LiveFairness

\* The positions at which a request waits for the store.
AwaitingStore ==
    {"profiles.select", "subscription_plans.select", "profiles.update", "profiles.insert",
     "user_subscriptions.upsert", "user_subscriptions.update"}

\* A request has a response exactly when it is done, with one of the four
\* statuses.
C30_ResponseWhenDone ==
    \A s \in Slots :
        /\ req[s].pc = "done" <=> req[s].response.status # 0
        /\ req[s].pc = "done" => req[s].response.status \in {200, 400, 401, 500}

\* The response is set once; and a request that waits for the store moves
\* only by the return of the call it waits for: no timeout, no cancellation.
C30_NoTimeout ==
    \A s \in Slots :
        /\ req[s].pc = "done" => req'[s] = IdleRequest
        /\ (req[s].pc \in AwaitingStore /\ req'[s] # req[s])
             => Len(req'[s].outcomes) = Len(req[s].outcomes) + 1

\* C30: when every store call returns, every request that has arrived is
\* eventually answered, once, with status 200, 400, 401 or 500; while a
\* store call has not returned its request has no response and nothing but
\* the return of that call moves it.
C30_EveryRequestAnswered ==
    /\ \A s \in Slots : (req[s].pc # "idle") ~> (req[s].pc = "done")
    /\ [](C30_ResponseWhenDone)
    /\ [][C30_NoTimeout]_vars

\* A cancellation that waited for four store calls has been answered 200.
C30_Witness ==
    \E s \in Slots :
        /\ req[s].pc = "done"
        /\ Len(req[s].outcomes) = 4
        /\ req[s].response.status = 200


\* The values of a column in the rows of a table.
ColumnValues(rows, column) == { rows[i][column] : i \in DOMAIN rows }

\* No step removes a row of profiles or of user_subscriptions: every row
\* stays where it is, for the same user and the same subscription, so the
\* users with a profile and the subscriptions with a row only grow; and no
\* step writes subscription_plans.
C31_RowsStay ==
    /\ Len(profiles') >= Len(profiles)
    /\ \A i \in DOMAIN profiles : profiles'[i].user_id = profiles[i].user_id
    /\ ColumnValues(profiles, "user_id") \subseteq ColumnValues(profiles', "user_id")
    /\ Len(user_subscriptions') >= Len(user_subscriptions)
    /\ \A i \in DOMAIN user_subscriptions :
          user_subscriptions'[i].paddle_subscription_id
             = user_subscriptions[i].paddle_subscription_id
    /\ subscription_plans' = subscription_plans

\* C31: whatever requests arrive, no row of profiles or of user_subscriptions
\* is ever deleted, the set of user_ids with a profile only grows, and
\* subscription_plans stays as it was.
C31_NothingDeleted == [](subscription_plans = Plans) /\ [][C31_RowsStay]_vars

\* Two users have a profile, and a cancellation has just updated a row of
\* user_subscriptions that is still there.
C31_Witness ==
    /\ ColumnValues(profiles, "user_id") = {"u1", "u2"}
    /\ \E s \in Slots :
          /\ Answered(s) /\ AllSucceeded(s)
          /\ Handles(s, {"subscription.canceled"})
          /\ \E i \in DOMAIN user_subscriptions :
                /\ user_subscriptions[i].paddle_subscription_id = EventData(s).id
                /\ user_subscriptions[i].updated_at = IsoString(clock)


\* One of the three handlers runs or has run for the request in slot s.
HandlerRuns(s) == req[s].handler \notin {"", "acknowledge"}

\* C32: whenever a handler runs, and whenever a store call has been issued,
\* the payload passed the validator and data.custom_data.userId, which the
\* handler reads, is present and not empty; so no profile is looked up or
\* written for an absent user_id, and no stored row has one.
C32_HandlerHasUserId ==
    /\ \A s \in DOMAIN req :
          (HandlerRuns(s) \/ StoreCalls(s) # << >>)
          => /\ req[s].validation.isValid
             /\ ~LacksData(Payload(req[s]))
             /\ ~Falsy(UserId(req[s]))
    /\ \A i \in DOMAIN profiles : ~Falsy(profiles[i].user_id)
    /\ \A i \in DOMAIN user_subscriptions : ~Falsy(user_subscriptions[i].user_id)

\* A handler wrote the profile of the user named by its payload.
C32_Witness ==
    \E s \in Slots :
        /\ HandlerRuns(s)
        /\ UpsertsProfile(s)
        /\ Answered(s) /\ AllSucceeded(s)
        /\ \E i \in DOMAIN profiles : profiles[i].user_id = UserId(req[s])

\* A signed payload with data but an empty userId was answered 400 before
\* the switch.
C32_WitnessRejected ==
    \E s \in Slots :
        /\ req[s].signatureResult.isValid
        /\ IsJson(req[s].rawBody)
        /\ req[s].rawBody[1].json.kind = "object"
        /\ ~LacksData(req[s].rawBody[1].json)
        /\ req[s].rawBody[1].json.data.custom_data # UndefinedObject
        /\ req[s].rawBody[1].json.data.custom_data.userId = ""
        /\ req[s].rawBody[1].json.event_type = "subscription.created"
        /\ req[s].response.status = 400
        /\ ~HandlerRuns(s)
        /\ StoreCalls(s) = << >>


\* The rows of profiles that the step of the request in slot s writes: the
\* rows of its user for the update, the added row for the insert.
WrittenProfiles(s) ==
    IF ~JustSucceeded(s) THEN {}
    ELSE IF req[s].pc = "profiles.update" THEN OwnProfiles(s)
    ELSE IF req[s].pc = "profiles.insert"
    THEN { i \in DOMAIN profiles' : i \notin DOMAIN profiles }
    ELSE {}

\* The members of the written row that come from custom_data, with their
\* placeholders, the key and the time of the write.
WrittenFromCustomData(s, row) ==
    /\ row.user_id = EventData(s).custom_data.userId
    /\ row.email = IF EventData(s).custom_data.email \in {Undefined, ""}
                   THEN "unknown@example.com" ELSE EventData(s).custom_data.email
    /\ row.full_name = IF EventData(s).custom_data.full_name \in {Undefined, ""}
                       THEN "Unknown User" ELSE EventData(s).custom_data.full_name
    /\ row.updated_at = IsoString(clock)

\* C33 as stated: every profile write takes subscription_status from the
\* event, "active" when the event has none, and paddle_customer_id from the
\* event, so that the customer id of the previous row does not survive.
C33_AsStated ==
    [][\A s \in DOMAIN req : \A i \in WrittenProfiles(s) :
          /\ WrittenFromCustomData(s, profiles'[i])
          /\ profiles'[i].subscription_status
                = IF EventData(s).status \in {Undefined, ""} THEN "active"
                  ELSE EventData(s).status
          /\ profiles'[i].paddle_customer_id \in {EventData(s).customer_id, Null}]_vars

\* The status each handler hands to the profile write (lines 615, 722, 799).
StatusWritten(s) ==
    CASE TypeOf(s) \in SubscriptionTypes ->
            IF EventData(s).status \in {Undefined, ""} THEN "active" ELSE EventData(s).status
      [] TypeOf(s) = "transaction.completed" -> "active"
      [] TypeOf(s) = "subscription.canceled" ->
            IF EventData(s).status \in {Undefined, ""} THEN "canceled"
            ELSE EventData(s).status

\* The plan each handler hands to the profile write (lines 616, 723, 800).
PlanWritten(s) ==
    IF TypeOf(s) = "subscription.canceled" THEN S(<<"f", "r", "e", "e">>)
    ELSE LowerName(req[s].plan)

\* C33: every profile write sets email and full_name from the event's
\* custom_data or to their placeholders, subscription_status to the status
\* its handler hands over, subscription_plan to the looked-up plan's name in
\* lower case ("free" for a cancellation), and paddle_customer_id to the
\* event's customer_id when it has one; without one an updated row keeps its
\* customer id and a new row has none.  An updated row keeps its created_at,
\* and no other row changes.
C33_ProfileWrite ==
    [][/\ \A s \in DOMAIN req : \A i \in WrittenProfiles(s) :
                /\ WrittenFromCustomData(s, profiles'[i])
                /\ profiles'[i].subscription_status = StatusWritten(s)
                /\ profiles'[i].subscription_plan = PlanWritten(s)
                /\ profiles'[i].paddle_customer_id
                      = IF EventData(s).customer_id # Undefined
                        THEN EventData(s).customer_id
                        ELSE IF i \in DOMAIN profiles
                        THEN profiles[i].paddle_customer_id
                        ELSE Null
                /\ profiles'[i].created_at
                      = IF i \in DOMAIN profiles THEN profiles[i].created_at
                        ELSE IsoString(clock)
       /\ \A i \in DOMAIN profiles :
             (\A s \in DOMAIN req : i \notin WrittenProfiles(s)) => profiles'[i] = profiles[i]]_vars

\* An event for u1 without email, full_name and customer_id has rewritten the
\* earlier profile: the placeholders replaced the stored email and name, the
\* stored customer id and created_at are still there.
C33_Witness ==
    \E s \in Slots :
        /\ Answered(s) /\ AllSucceeded(s) /\ UpsertsProfile(s)
        /\ EventData(s).customer_id = Undefined
        /\ EventData(s).custom_data.email = Undefined
        /\ \E i \in DOMAIN profiles :
              /\ profiles[i].user_id = "u1"
              /\ profiles[i].email = "unknown@example.com"
              /\ profiles[i].full_name = "Unknown User"
              /\ profiles[i].paddle_customer_id = EarlierProfile.paddle_customer_id
              /\ profiles[i].created_at = EarlierProfile.created_at
              /\ profiles[i].updated_at = IsoString(clock)

\* A cancellation without a status has stored "canceled" in the profile.
C33_WitnessCanceled ==
    \E s \in Slots :
        /\ Answered(s) /\ AllSucceeded(s) /\ UpsertsProfile(s)
        /\ TypeOf(s) = "subscription.canceled"
        /\ EventData(s).status = Undefined
        /\ \E i \in DOMAIN profiles :
              /\ profiles[i].user_id = "u1"
              /\ profiles[i].subscription_status = "canceled"
              /\ profiles[i].updated_at = IsoString(clock)


(***************************************************************************)
(* SpecLog: the logger.  Every function of the webhook logs through the    *)
(* one WebhookLogger of the module (line 80), which keeps the entries in   *)
(* this.logs; nothing reads them back.  The probe holds this.logs and the  *)
(* number of log calls made; the n-th call passes the message n.  An       *)
(* entry's requestId (Math.random, line 29) plays no part in what is kept  *)
(* and is left out.                                                        *)
(***************************************************************************)
\* private maxLogs = 100 (line 21)
maxLogs == 100

\* The number of log calls of a behaviour.
MaxLogCalls == 103

\* info, warn, error, debug, critical (lines 52-70)
LogLevels == <<"info", "warn", "error", "debug", "critical">>

\* The data of a log call: none, an object, an object JSON.stringify throws
\* on (a cycle, a BigInt).
LogData == {Undefined, "object", "circular"}

\* data ? JSON.stringify(data, null, 2) : undefined (line 28), for data that
\* can be serialised.
LoggedData(data) == IF data = Undefined THEN Undefined ELSE "json"

\* Variant: a logger that drops the new entries once it is full.
addLog_KeepsOldest(logs, level, message, data, now) ==
    LET logEntry == [timestamp |-> IsoString(now), level |-> level,
                     message |-> message, data |-> LoggedData(data)]
        pushed == Append(logs, logEntry)
    IN  IF Len(pushed) > maxLogs THEN SubSeq(pushed, 1, maxLogs) ELSE pushed

\* this.logs after addLog(level, message, data) returned (lines 23-37): push,
\* then splice(0, length - maxLogs).
addLog(logs, level, message, data, now) ==
    LET logEntry == [timestamp |-> IsoString(now), level |-> level,
                     message |-> message, data |-> LoggedData(data)]
        pushed == Append(logs, logEntry)
    IN  IF Len(pushed) > maxLogs
        THEN SubSeq(pushed, Len(pushed) - maxLogs + 1, Len(pushed))
        ELSE pushed

\* The level and the data of the n-th call: the levels in turn from the one
\* the behaviour starts with, data with every second call, and the call
\* probe.unserialisable with data that cannot be serialised.
LevelOfCall(n) == LogLevels[((n + probe.first) % Len(LogLevels)) + 1]

DataOfCall(n) ==
    IF n = probe.unserialisable THEN "circular"
    ELSE IF n % 2 = 0 THEN "object" ELSE Undefined

LogInit ==
    /\ config = ReplayConfig
    /\ clock = BaseTime
    /\ StoreInit
    /\ req = [s \in Slots |-> IdleRequest]
    /\ \E first \in 0 .. Len(LogLevels) - 1, unserialisable \in 0 .. MaxLogCalls :
          probe = [fn |-> "log", logs |-> << >>, calls |-> 0,
                   first |-> first, unserialisable |-> unserialisable]

\* A call of logger.info / warn / error / debug / critical.  JSON.stringify
\* runs before the push (line 28): when it throws, the call ends with the
\* exception and this.logs is as before.
LogCall ==
    /\ probe.fn = "log"
    /\ probe.calls < MaxLogCalls
    /\ LET n == probe.calls + 1
       IN  /\ DataOfCall(n) \in LogData
           /\ probe' = [probe EXCEPT
                          !.calls = n,
                          !.logs = IF DataOfCall(n) = "circular" THEN @
                                   ELSE addLog(@, LevelOfCall(n), n, DataOfCall(n), clock)]
    /\ UNCHANGED <<config, clock, profiles, user_subscriptions, subscription_plans, req>>

LogNext == LogCall

SpecLog == LogInit /\ [][LogNext]_vars

\* The calls that returned, in call order.
ReturnedLogCalls ==
    SelectSeq([n \in 1 .. probe.calls |-> n], LAMBDA n : DataOfCall(n) # "circular")

\* The last k members of a sequence.
LastOf(seq, k) == SubSeq(seq, Len(seq) - k + 1, Len(seq))

Min(a, b) == IF a < b THEN a ELSE b

\* C34: after any sequence of log calls this.logs holds at most maxLogs (100)
\* entries, and they are the entries of the most recent calls that returned,
\* in call order, each as it was logged: the oldest entries are the ones
\* evicted.
C34_BoundedFifo ==
    probe.fn = "log"
    => /\ Len(probe.logs) <= maxLogs
       /\ Len(probe.logs) = Min(Len(ReturnedLogCalls), maxLogs)
       /\ [i \in DOMAIN probe.logs |-> probe.logs[i].message]
             = LastOf(ReturnedLogCalls, Len(probe.logs))
       /\ \A i \in DOMAIN probe.logs :
             /\ probe.logs[i].level = LevelOfCall(probe.logs[i].message)
             /\ probe.logs[i].data = LoggedData(DataOfCall(probe.logs[i].message))

\* More than maxLogs calls returned: the buffer is full, the entry of the
\* first call is gone and the newest entry is that of the last call.
C34_Witness ==
    /\ probe.fn = "log"
    /\ Len(ReturnedLogCalls) > maxLogs + 1
    /\ Len(probe.logs) = maxLogs
    /\ probe.logs[1].message = ReturnedLogCalls[Len(ReturnedLogCalls) - maxLogs + 1]
    /\ probe.logs[1].message > 2
    /\ probe.logs[maxLogs].message = probe.calls

=============================================================================
